---- MODULE Spec2Model ----
(***************************************************************************)
(* MailVet: the check orchestrator (analyzeDomain), the scoring engine     *)
(* (calculateGrade) and the SPF evaluator (checkSPF).                       *)
(*                                                                         *)
(* Text the code inspects character by character (domains, SPF records)    *)
(* is a sequence of one-character strings; text it only copies (messages)  *)
(* is a TLA+ string.  An optional value is <<>> (undefined) or <<v>>; an    *)
(* optional string is "undefined"; an absent check result is Undef.        *)
(***************************************************************************)
EXTENDS Integers, Sequences, FiniteSets, TLC

VARIABLES
    \* ---- analyzeDomain (core/analyzer.ts)
    input,        \* the domain argument as passed by the caller
    domain,       \* the normalized domain
    pc,           \* "start" | "waiting" | "done"
    options,      \* [checks: set of enabled check names, timeout: ms or 0 when unset]
    now,          \* the event loop's clock (ms)
    probe,        \* per check: the state of the check's own promise
    wrapped,      \* per check: the state of the promise wrapWithTimeout returned
    timer,        \* per check: "none" | "armed" | "fired" | "cleared"
    deadline,     \* when the armed timers are due
    result,       \* the DomainResult analyzeDomain resolved with, or Undef
    \* ---- calculateGrade (core/scorer.ts)
    gIn,          \* the nine check results handed to calculateGrade
    gOut,         \* [grade, score] or Undef
    \* ---- checkSPF (checks/spf.ts)
    dnsEnv,       \* the DNS zone data: lower-cased domain -> TXT answer
    apex,         \* the domain checkSPF was called with
    spfPc,        \* "start" | "run" | "done" | "threw"
    stack,        \* the call stack of countDNSLookupsRecursive, innermost last
    visited,      \* the Set threaded through the traversal
    ret,          \* the LookupResult just returned to the innermost frame, or Undef
    queries,      \* TXT queries issued so far by the traversal
    maxDepthEvaluated, \* greatest depth at which a record was evaluated
    spfOut,       \* the SPFResult, or Undef
    \* ---- analyzeMultiple (core/analyzer.ts)
    mDomains,     \* the domains argument
    mOptions,     \* [concurrency: a positive number, or 0 when unset]
    mPc,          \* "start" | "awaiting" | "resolved" | "rejected"
    mI,           \* the loop variable i
    mCalls,       \* per place of mDomains: the state of its analyzeDomain call
    mResults,     \* the local list results
    mOut,         \* what the call settled with, or Undef
    \* ---- the DNS layer (utils/dns.ts)
    dnsCache,     \* the Map dnsCache: key -> [value, expires], Undef where absent
    dnsNow,       \* Date.now()
    dnsTasks,     \* per caller: the state of its call into the DNS layer
    dnsQueries    \* per key: the number of queries sent to the resolver

avars == <<input, domain, pc, options, now, probe, wrapped, timer, deadline, result>>
gvars == <<gIn, gOut>>
svars == <<dnsEnv, apex, spfPc, stack, visited, ret, queries, maxDepthEvaluated, spfOut>>
mvars == <<mDomains, mOptions, mPc, mI, mCalls, mResults, mOut>>
dvars == <<dnsCache, dnsNow, dnsTasks, dnsQueries>>
xvars == <<mvars, dvars>>
vars == <<avars, gvars, svars, xvars>>

Undef == [kind |-> "undefined"]
IsDef(v) == v # Undef
None == <<>>
Some(v) == <<v>>

\* The element of a one-element set: {e(x) : x \in {v}} computes v once for all
\* its uses in e.
TheOne(S) == CHOOSE v \in S : TRUE

Min(a, b) == IF a < b THEN a ELSE b
Max(a, b) == IF a > b THEN a ELSE b

Rep(c, n) == [i \in 1..n |-> c]

RECURSIVE Concat(_)
Concat(ss) == IF ss = <<>> THEN <<>> ELSE Head(ss) \o Concat(Tail(ss))

\* All sequences over S of length 0..n.
SeqsUpTo(S, n) == UNION {[1..k -> S] : k \in 0..n}

(***************************************************************************)
(* Text                                                                    *)
(***************************************************************************)
LowerLetters ==
    <<"a", "b", "c", "d", "e", "f", "g", "h", "i", "j", "k", "l", "m",
      "n", "o", "p", "q", "r", "s", "t", "u", "v", "w", "x", "y", "z">>
UpperLetters ==
    <<"A", "B", "C", "D", "E", "F", "G", "H", "I", "J", "K", "L", "M",
      "N", "O", "P", "Q", "R", "S", "T", "U", "V", "W", "X", "Y", "Z">>
Digits == {"0", "1", "2", "3", "4", "5", "6", "7", "8", "9"}
Letters == {LowerLetters[i] : i \in 1..26} \cup {UpperLetters[i] : i \in 1..26}
Whitespace == {" ", "\t"}

\* \w of a regular expression
IsWordChar(c) == c \in Letters \cup Digits \cup {"_"}
IsAlnum(c) == c \in Letters \cup Digits

LowerChar(c) ==
    IF \E i \in 1..26 : UpperLetters[i] = c
    THEN LowerLetters[CHOOSE i \in 1..26 : UpperLetters[i] = c]
    ELSE c

\* String.prototype.toLowerCase
toLowerCase(s) == TheOne({SubSeq([i \in 1..Len(t) |-> LowerChar(t[i])], 1, Len(t)) : t \in {s}})

\* s.startsWith(p) / s.endsWith(p)
startsWith(s, p) == TheOne({Len(t) >= Len(p) /\ SubSeq(t, 1, Len(p)) = p : t \in {s}})
endsWith(s, p) ==
    TheOne({Len(t) >= Len(p) /\ SubSeq(t, Len(t) - Len(p) + 1, Len(t)) = p : t \in {s}})

\* p occurs in s at position i
MatchAt(s, p, i) == i >= 1 /\ i + Len(p) - 1 <= Len(s) /\ SubSeq(s, i, i + Len(p) - 1) = p

\* s.split(c)[0]: the text before the first c
beforeFirst(s, c) ==
    IF \E i \in 1..Len(s) : s[i] = c
    THEN SubSeq(s, 1, (CHOOSE i \in 1..Len(s) : s[i] = c /\ \A j \in 1..(i - 1) : s[j] # c) - 1)
    ELSE s

\* String.prototype.trim
RECURSIVE trimLeft(_)
trimLeft(s) == IF s # <<>> /\ Head(s) \in Whitespace THEN trimLeft(Tail(s)) ELSE s
RECURSIVE trimRight(_)
trimRight(s) ==
    IF s # <<>> /\ s[Len(s)] \in Whitespace THEN trimRight(SubSeq(s, 1, Len(s) - 1)) ELSE s
trim(s) == trimRight(trimLeft(s))

\* s.replace(/\.$/, '')
stripTrailingDot(s) ==
    IF s # <<>> /\ s[Len(s)] = "." THEN SubSeq(s, 1, Len(s) - 1) ELSE s

\* s.replace(/\s/g, '')
removeWhitespace(s) == SelectSeq(s, LAMBDA c : c \notin Whitespace)

\* s.split('.')
RECURSIVE splitOn(_, _)
splitOn(s, c) ==
    IF \E i \in 1..Len(s) : s[i] = c
    THEN LET h == beforeFirst(s, c)
         IN  <<h>> \o splitOn(SubSeq(s, Len(h) + 2, Len(s)), c)
    ELSE <<s>>

(***************************************************************************)
(* Domain utilities                                                        *)
(***************************************************************************)
HTTP == <<"h", "t", "t", "p", ":", "/", "/">>
HTTPS == <<"h", "t", "t", "p", "s", ":", "/", "/">>

\* new URL(s).hostname for an http(s) URL whose host is made of ASCII letters,
\* hyphens and dots: the text between the scheme and the first '/' or ':'.
\* (The manual fallback keeps a port, which the split on ':' below removes.)
urlHostname(s) ==
    LET rest == IF startsWith(s, HTTPS) THEN SubSeq(s, Len(HTTPS) + 1, Len(s))
                ELSE SubSeq(s, Len(HTTP) + 1, Len(s))
    IN  beforeFirst(beforeFirst(rest, "/"), ":")

\* The text is ASCII, so the punycode conversion at the end does not apply.
normalizeDomain(d) ==
    LET n0 == trim(toLowerCase(d))
        n1 == IF startsWith(n0, HTTP) \/ startsWith(n0, HTTPS) THEN urlHostname(n0) ELSE n0
        n2 == beforeFirst(n1, "/")
        n3 == beforeFirst(n2, ":")
        n4 == stripTrailingDot(n3)
    IN  removeWhitespace(n4)

MAX_DOMAIN_LENGTH == 253
MAX_LABEL_LENGTH == 63

\* /^[a-z0-9]([a-z0-9-]*[a-z0-9])?$/i
labelSyntaxOk(label) ==
    /\ Len(label) >= 1
    /\ IsAlnum(label[1])
    /\ IsAlnum(label[Len(label)])
    /\ \A i \in 1..Len(label) : IsAlnum(label[i]) \/ label[i] = "-"

\* A validation that forgets the rule that a domain holds a dot.
isValidDomainNoDotRule(d) ==
    /\ Len(d) > 0 /\ Len(d) <= MAX_DOMAIN_LENGTH
    /\ LET labels == splitOn(d, ".")
       IN  \A i \in DOMAIN labels :
              Len(labels[i]) > 0 /\ Len(labels[i]) <= MAX_LABEL_LENGTH /\ labelSyntaxOk(labels[i])

isValidDomain(d) ==
    /\ Len(d) > 0 /\ Len(d) <= MAX_DOMAIN_LENGTH
    /\ \E i \in 1..Len(d) : d[i] = "."
    /\ LET labels == splitOn(d, ".")
       IN  \A i \in DOMAIN labels :
              Len(labels[i]) > 0 /\ Len(labels[i]) <= MAX_LABEL_LENGTH /\ labelSyntaxOk(labels[i])

(***************************************************************************)
(* Issues                                                                  *)
(***************************************************************************)
Severities == {"critical", "high", "medium", "low", "info"}

Issue(sev, msg) == [severity |-> sev, message |-> msg]
IssueR(sev, msg, rec) == [severity |-> sev, message |-> msg, recommendation |-> rec]

CountSev(issues, sev) == Cardinality({i \in DOMAIN issues : issues[i].severity = sev})

(***************************************************************************)
(* Scoring engine                                                          *)
(***************************************************************************)
SCORE_BONUS_MAX == 20
GRADE_A_MIN == 90
GRADE_B_MIN == 75
GRADE_C_MIN == 50
GRADE_D_MIN == 25
DKIM_WEAK_KEY_BITS == 1024
DKIM_STRONG_KEY_BITS == 2048
PENALTY_CRITICAL == 15
PENALTY_HIGH == 8
PENALTY_MEDIUM == 3

\* s.keyLength && s.keyLength >= bits
KeyAtLeast(s, bits) == s.keyLength # None /\ s.keyLength[1] >= bits

hasStrongKey(dkim) ==
    \E i \in DOMAIN dkim.selectors :
        dkim.selectors[i].keyType = "ed25519" \/ KeyAtLeast(dkim.selectors[i], DKIM_STRONG_KEY_BITS)

hasAnyKey(dkim) ==
    \E i \in DOMAIN dkim.selectors : KeyAtLeast(dkim.selectors[i], DKIM_WEAK_KEY_BITS)

SpfPoints(spf) ==
    IF ~spf.found THEN 0
    ELSE 15
         + (CASE spf.mechanism = "-all" -> 20
              [] spf.mechanism = "~all" -> 10
              [] spf.mechanism = "?all" -> 5
              [] OTHER -> 0)
         - (IF spf.lookupCount # None /\ spf.lookupCount[1] # 0 /\ spf.lookupCount[1] > 10
            THEN 10 ELSE 0)

DkimPoints(dkim) ==
    IF ~dkim.found THEN 0
    ELSE 15 + (IF hasStrongKey(dkim) THEN 10 ELSE IF hasAnyKey(dkim) THEN 5 ELSE 0)

DmarcPoints(dmarc) ==
    IF ~dmarc.found THEN 0
    ELSE 10
         + (CASE dmarc.policy = "reject" -> 20
              [] dmarc.policy = "quarantine" -> 12
              [] dmarc.policy = "none" -> 3
              [] OTHER -> 0)
         + (IF dmarc.reportingEnabled THEN 5 ELSE 0)
         + (IF dmarc.pct = None \/ dmarc.pct = Some(100) THEN 5 ELSE 0)

BasePoints(spf, dkim, dmarc) == SpfPoints(spf) + DkimPoints(dkim) + DmarcPoints(dmarc)

\* dmarc.found && dmarc.policy && dmarc.policy !== 'none'
dmarcOk(dmarc) == dmarc.found /\ dmarc.policy # "undefined" /\ dmarc.policy # "none"

BimiBonus(bimi, dmarc) ==
    IF IsDef(bimi) /\ bimi.found /\ dmarcOk(dmarc)
    THEN 3 + (IF bimi.certificateUrl # "undefined" THEN 2 ELSE 0)
    ELSE 0

MtaStsBonus(mtaSts) ==
    IF IsDef(mtaSts) /\ mtaSts.found /\ mtaSts.policy # None
    THEN CASE mtaSts.policy[1].mode = "enforce" -> 4
           [] mtaSts.policy[1].mode = "testing" -> 2
           [] OTHER -> 0
    ELSE 0

TlsRptBonus(tlsRpt) ==
    IF IsDef(tlsRpt) /\ tlsRpt.found /\ Len(tlsRpt.rua) > 0 THEN 3 ELSE 0

ArcBonus(arc) == IF IsDef(arc) /\ arc.ready /\ arc.canSign THEN 3 ELSE 0

DnssecBonus(dnssec) ==
    IF IsDef(dnssec) /\ dnssec.enabled THEN (IF dnssec.chainValid THEN 5 ELSE 3) ELSE 0

BonusPoints(dmarc, bimi, mtaSts, tlsRpt, arc, dnssec) ==
    BimiBonus(bimi, dmarc) + MtaStsBonus(mtaSts) + TlsRptBonus(tlsRpt)
    + ArcBonus(arc) + DnssecBonus(dnssec)

IssuesOf(r) == IF IsDef(r) THEN r.issues ELSE <<>>

allIssues(spf, dkim, dmarc, mx, bimi, mtaSts, tlsRpt, arc, dnssec) ==
    spf.issues \o dkim.issues \o dmarc.issues \o mx.issues \o IssuesOf(bimi)
    \o IssuesOf(mtaSts) \o IssuesOf(tlsRpt) \o IssuesOf(arc) \o IssuesOf(dnssec)

\* A penalty that counts every issue, without the caps per severity.
calculateIssuePenaltyUncapped(spf, dkim, dmarc, mx, bimi, mtaSts, tlsRpt, arc, dnssec) ==
    TheOne({CountSev(all, "critical") * PENALTY_CRITICAL
            + CountSev(all, "high") * PENALTY_HIGH
            + CountSev(all, "medium") * PENALTY_MEDIUM :
            all \in {allIssues(spf, dkim, dmarc, mx, bimi, mtaSts, tlsRpt, arc, dnssec)}})

\* A penalty that takes one point for every low issue as well.
calculateIssuePenaltyCountingLow(spf, dkim, dmarc, mx, bimi, mtaSts, tlsRpt, arc, dnssec) ==
    TheOne({Min(CountSev(all, "critical"), 3) * PENALTY_CRITICAL
            + Min(CountSev(all, "high"), 3) * PENALTY_HIGH
            + Min(CountSev(all, "medium"), 5) * PENALTY_MEDIUM
            + CountSev(all, "low") :
            all \in {allIssues(spf, dkim, dmarc, mx, bimi, mtaSts, tlsRpt, arc, dnssec)}})

calculateIssuePenalty(spf, dkim, dmarc, mx, bimi, mtaSts, tlsRpt, arc, dnssec) ==
    TheOne({Min(CountSev(all, "critical"), 3) * PENALTY_CRITICAL
            + Min(CountSev(all, "high"), 3) * PENALTY_HIGH
            + Min(CountSev(all, "medium"), 5) * PENALTY_MEDIUM :
            all \in {allIssues(spf, dkim, dmarc, mx, bimi, mtaSts, tlsRpt, arc, dnssec)}})

\* A score computation that forgets both clamps.
FinalScoreUnclamped(base, bonus, penalty) == base + Min(bonus, SCORE_BONUS_MAX) - penalty

\* A score clamped once only, after the penalty has been subtracted.
FinalScoreClampedOnce(base, bonus, penalty) ==
    Max(0, Min(100, base + Min(bonus, SCORE_BONUS_MAX) - penalty))

\* score = min(100, score + min(bonus, MAX)); score = max(0, score - penalty);
\* score = max(0, min(100, score))
FinalScore(base, bonus, penalty) ==
    LET s1 == Min(100, base + Min(bonus, SCORE_BONUS_MAX))
        s2 == Max(0, s1 - penalty)
    IN  Max(0, Min(100, s2))

\* Grade bands with the B threshold compared the wrong way round.
GradeOfSwapped(score) ==
    IF score >= GRADE_A_MIN THEN "A"
    ELSE IF score <= GRADE_B_MIN THEN "B"
    ELSE IF score >= GRADE_C_MIN THEN "C"
    ELSE IF score >= GRADE_D_MIN THEN "D"
    ELSE "F"

GradeOf(score) ==
    IF score >= GRADE_A_MIN THEN "A"
    ELSE IF score >= GRADE_B_MIN THEN "B"
    ELSE IF score >= GRADE_C_MIN THEN "C"
    ELSE IF score >= GRADE_D_MIN THEN "D"
    ELSE "F"

calculateGrade(spf, dkim, dmarc, mx, bimi, mtaSts, tlsRpt, arc, dnssec) ==
    TheOne({[grade |-> GradeOf(score), score |-> score] :
            score \in {FinalScore(BasePoints(spf, dkim, dmarc),
                                  BonusPoints(dmarc, bimi, mtaSts, tlsRpt, arc, dnssec),
                                  calculateIssuePenalty(spf, dkim, dmarc, mx, bimi, mtaSts,
                                                        tlsRpt, arc, dnssec))}})

(***************************************************************************)
(* Recommendations (core/scorer.ts)                                        *)
(***************************************************************************)
Rec(p, text) == [priority |-> p, text |-> text]

\* Array.prototype.sort by priority, which is stable: the element at place j
\* moves behind those of lower priority and those of equal priority before it.
RECURSIVE placedByPriority(_, _)
placedByPriority(sorted, x) ==
    IF sorted = <<>> \/ sorted[Len(sorted)].priority <= x.priority
    THEN Append(sorted, x)
    ELSE TheOne({Append(placedByPriority(front, x), sorted[Len(sorted)]) :
                   front \in {SubSeq(sorted, 1, Len(sorted) - 1)}})
RECURSIVE sortedUpTo(_, _)
sortedUpTo(rs, n) ==
    IF n = 0 THEN <<>>
    ELSE TheOne({placedByPriority(sorted, rs[n]) : sorted \in {sortedUpTo(rs, n - 1)}})
sortByPriority(rs) == sortedUpTo(rs, Len(rs))

When(cond, r) == IF cond THEN <<r>> ELSE <<>>

weakKeys(dkim) ==
    SelectSeq(dkim.selectors,
              LAMBDA k : k.keyLength # None /\ k.keyLength[1] # 0 /\ k.keyLength[1] < 2048
                         /\ k.keyType # "ed25519")

\* The recommendation texts are named by their subject; the DNSSEC results carry
\* no DS record list, so the two DS recommendations never apply.
generateRecommendations(spf, dkim, dmarc, mx, bimi, mtaSts, tlsRpt, arc, dnssec) ==
    LET found(r) == IsDef(r) /\ r.found
        recs ==
            When(~spf.found, Rec(1, "add SPF"))
            \o When(~dmarc.found, Rec(2, "add DMARC"))
            \o When(~dkim.found, Rec(3, "add DKIM"))
            \o (IF spf.found /\ spf.mechanism = "+all" THEN <<Rec(4, "SPF +all to -all")>>
                ELSE When(spf.found /\ spf.mechanism = "~all", Rec(7, "SPF ~all to -all")))
            \o (IF dmarc.found /\ dmarc.policy = "none" THEN <<Rec(5, "DMARC none to quarantine")>>
                ELSE When(dmarc.found /\ dmarc.policy = "quarantine",
                          Rec(8, "DMARC quarantine to reject")))
            \o When(dkim.found /\ Len(weakKeys(dkim)) > 0, Rec(6, "DKIM key to 2048 bits"))
            \o When(dmarc.found /\ ~dmarc.reportingEnabled, Rec(9, "DMARC rua"))
            \o When(spf.found /\ spf.lookupCount # None /\ spf.lookupCount[1] > 7,
                    Rec(10, "SPF lookups"))
            \o (IF ~found(mtaSts) THEN <<Rec(11, "add MTA-STS")>>
                ELSE When(mtaSts.policy # None /\ mtaSts.policy[1].mode = "testing",
                          Rec(14, "MTA-STS testing to enforce")))
            \o When(~found(tlsRpt), Rec(12, "add TLS-RPT"))
            \o (IF dmarcOk(dmarc)
                THEN (IF ~found(bimi) THEN <<Rec(15, "add BIMI")>>
                      ELSE When(bimi.certificateUrl = "undefined", Rec(16, "add VMC")))
                ELSE <<>>)
            \o (IF ~(IsDef(dnssec) /\ dnssec.enabled) THEN <<Rec(13, "enable DNSSEC")>>
                ELSE When(~dnssec.chainValid, Rec(6, "DNSSEC chain of trust")))
            \o (IF IsDef(arc) /\ ~arc.ready
                THEN (IF ~dkim.found THEN <<Rec(14, "DKIM for ARC")>>
                      ELSE When(~arc.canSign, Rec(15, "enable ARC signing")))
                ELSE <<>>)
    IN  TheOne({[i \in 1..Len(sorted) |-> sorted[i].text] : sorted \in {sortByPriority(recs)}})

(***************************************************************************)
(* ARC readiness (checks/arc.ts)                                           *)
(***************************************************************************)
\* A readiness that asks for DKIM and DMARC before signing is possible.
checkARCReadinessStrict(spf, dkim, dmarc) ==
    [ready |-> dkim.found /\ dmarc.found, canSign |-> dkim.found /\ dmarc.found,
     canValidate |-> dkim.found, issues |-> <<>>]

checkARCReadiness(spf, dkim, dmarc) ==
    LET strong ==
            \E i \in DOMAIN dkim.selectors :
                dkim.selectors[i].keyType = "ed25519" \/ KeyAtLeast(dkim.selectors[i], 2048)
        issues0 ==
            (IF ~dkim.found
             THEN <<IssueR("medium", "DKIM not configured - cannot sign ARC headers",
                           "Configure DKIM to enable ARC signing capability")>>
             ELSE When(~strong,
                       IssueR("low", "DKIM keys should be 2048-bit RSA or ed25519 for ARC",
                              "Upgrade DKIM keys to 2048-bit RSA or ed25519 for better ARC compatibility")))
            \o (IF ~dmarc.found
                THEN <<IssueR("low", "DMARC not configured - ARC benefits are limited",
                              "Configure DMARC to fully benefit from ARC authentication chain")>>
                ELSE When(dmarc.policy = "none",
                          IssueR("info", "DMARC policy is none - ARC can help when upgrading to stricter policy",
                                 "ARC preserves authentication when emails are forwarded")))
            \o When(~spf.found,
                    IssueR("info", "SPF not configured - ARC can help preserve SPF results across forwards",
                           "Configure SPF for complete email authentication"))
        ready == dkim.found /\ dmarc.found
    IN  [ready |-> ready,
         canSign |-> dkim.found,
         canValidate |-> TRUE,
         issues |-> issues0 \o When(ready /\ Len(issues0) = 0,
                                    IssueR("info", "Domain is ARC-ready",
                                           "Your email infrastructure can participate in ARC chains"))]

(***************************************************************************)
(* Inputs of calculateGrade                                                *)
(***************************************************************************)
MaxCritical == 4
MaxHigh == 4
MaxMedium == 6

Mechanisms == {"-all", "~all", "?all", "+all", "undefined"}

SpfValue(f, m, l, is) ==
    [found |-> f, mechanism |-> m, lookupCount |-> l, issues |-> is]
Selector(t, l) == [selector |-> "default", keyType |-> t, keyLength |-> l]
DkimValue(f, sel, is) == [found |-> f, selectors |-> sel, issues |-> is]
DmarcValue(f, p, r, pct, is) ==
    [found |-> f, policy |-> p, reportingEnabled |-> r, pct |-> pct, issues |-> is]
MxValue(f, recs, is) == [found |-> f, records |-> recs, issues |-> is]
BimiValue(f, cert, is) == [found |-> f, certificateUrl |-> cert, issues |-> is]
MtaStsValue(f, pol, is) == [found |-> f, policy |-> pol, issues |-> is]
TlsRptValue(f, rua, is) == [found |-> f, rua |-> rua, issues |-> is]
ArcValue(r, s, is) == [ready |-> r, canSign |-> s, canValidate |-> TRUE, issues |-> is]
DnssecValue(e, c, is) == [enabled |-> e, chainValid |-> c, issues |-> is]

SpfInputs ==
    {SpfValue(FALSE, "undefined", None, <<>>)}
    \cup {SpfValue(TRUE, m, l, <<>>) : m \in Mechanisms, l \in {None, Some(3), Some(11)}}

SelectorLists ==
    {<<>>, <<Selector("rsa", Some(512))>>, <<Selector("rsa", Some(1024))>>,
     <<Selector("rsa", Some(2048))>>, <<Selector("ed25519", None)>>,
     <<Selector("rsa", Some(1024)), Selector("rsa", Some(4096))>>}

DkimInputs ==
    {DkimValue(FALSE, <<>>, <<>>)} \cup {DkimValue(TRUE, sl, <<>>) : sl \in SelectorLists}

DmarcInputs ==
    {DmarcValue(FALSE, "undefined", FALSE, None, <<>>)}
    \cup {DmarcValue(TRUE, p, r, pct, <<>>) :
            p \in {"reject", "quarantine", "none", "undefined"},
            r \in BOOLEAN, pct \in {None, Some(50), Some(100)}}

BimiInputs ==
    {Undef, BimiValue(FALSE, "undefined", <<>>), BimiValue(TRUE, "undefined", <<>>),
     BimiValue(TRUE, "https://example.com/vmc.pem", <<>>)}

MtaStsInputs ==
    {Undef, MtaStsValue(FALSE, None, <<>>), MtaStsValue(TRUE, None, <<>>)}
    \cup {MtaStsValue(TRUE, Some([mode |-> m, mx |-> <<>>]), <<>>) :
            m \in {"enforce", "testing", "none"}}

TlsRptInputs ==
    {Undef, TlsRptValue(FALSE, <<>>, <<>>), TlsRptValue(TRUE, <<>>, <<>>),
     TlsRptValue(TRUE, <<"mailto:tls@example.com">>, <<>>)}

ArcInputs ==
    {Undef, ArcValue(TRUE, TRUE, <<>>), ArcValue(FALSE, TRUE, <<>>), ArcValue(FALSE, FALSE, <<>>)}

DnssecInputs ==
    {Undef, DnssecValue(FALSE, FALSE, <<>>), DnssecValue(TRUE, FALSE, <<>>),
     DnssecValue(TRUE, TRUE, <<>>)}

CheckFields == <<"spf", "dkim", "dmarc", "mx", "bimi", "mtaSts", "tlsRpt", "arc", "dnssec">>

GradeInput(spf, dkim, dmarc, mx, bimi, mtaSts, tlsRpt, arc, dnssec) ==
    [spf |-> spf, dkim |-> dkim, dmarc |-> dmarc, mx |-> mx, bimi |-> bimi,
     mtaSts |-> mtaSts, tlsRpt |-> tlsRpt, arc |-> arc, dnssec |-> dnssec]

\* Issue tallies: the numbers of critical, high, medium, low and info issues.
Tallies ==
    [critical : 0..MaxCritical, high : 0..MaxHigh, medium : 0..MaxMedium,
     low : 0..1, info : 0..1]

NoIssues == [critical |-> 0, high |-> 0, medium |-> 0, low |-> 0, info |-> 0]
HeavyIssues ==
    [critical |-> MaxCritical, high |-> MaxHigh, medium |-> MaxMedium, low |-> 1, info |-> 1]

IssueList(sev, n) == Rep(Issue(sev, "issue"), n)

\* The issues of tally t spread over the results of g: the critical ones on the
\* check at place p (counted cyclically), the high ones on the next, and so on.
\* A result that is absent takes none.
WithIssues(g, t, p) ==
    LET at(k) == CheckFields[((p + k - 1) % 9) + 1]
        extra(f) ==
            (IF at(0) = f THEN IssueList("critical", t.critical) ELSE <<>>)
            \o (IF at(1) = f THEN IssueList("high", t.high) ELSE <<>>)
            \o (IF at(2) = f THEN IssueList("medium", t.medium) ELSE <<>>)
            \o (IF at(3) = f THEN IssueList("low", t.low) ELSE <<>>)
            \o (IF at(4) = f THEN IssueList("info", t.info) ELSE <<>>)
    IN  [f \in DOMAIN g |->
            IF IsDef(g[f]) THEN [g[f] EXCEPT !.issues = @ \o extra(f)] ELSE g[f]]

\* One issue of severity sev on each of the results of g at the places in S.
Spread(g, S, sev) ==
    [f \in DOMAIN g |->
        IF IsDef(g[f]) /\ (\E k \in S : CheckFields[k] = f)
        THEN [g[f] EXCEPT !.issues = @ \o IssueList(sev, 1)] ELSE g[f]]

MxInput == MxValue(TRUE, <<>>, <<>>)

CoreProfiles ==
    {<<SpfValue(FALSE, "undefined", None, <<>>), DkimValue(FALSE, <<>>, <<>>),
       DmarcValue(FALSE, "undefined", FALSE, None, <<>>)>>,
     <<SpfValue(TRUE, "-all", Some(1), <<>>), DkimValue(TRUE, <<Selector("rsa", Some(2048))>>, <<>>),
       DmarcValue(TRUE, "reject", TRUE, None, <<>>)>>,
     <<SpfValue(TRUE, "~all", Some(11), <<>>), DkimValue(TRUE, <<Selector("rsa", Some(1024))>>, <<>>),
       DmarcValue(TRUE, "none", FALSE, Some(50), <<>>)>>}

OptionalNone == <<Undef, Undef, Undef, Undef, Undef>>
OptionalBest ==
    <<BimiValue(TRUE, "https://example.com/vmc.pem", <<>>),
      MtaStsValue(TRUE, Some([mode |-> "enforce", mx |-> <<>>]), <<>>),
      TlsRptValue(TRUE, <<"mailto:tls@example.com">>, <<>>),
      ArcValue(TRUE, TRUE, <<>>), DnssecValue(TRUE, TRUE, <<>>)>>

Assemble(core, opt) ==
    GradeInput(core[1], core[2], core[3], MxInput, opt[1], opt[2], opt[3], opt[4], opt[5])

\* The results calculateGrade is applied to: every core combination with no or all
\* optional results and no or many issues; every optional combination, and every
\* issue tally at every place, and one issue of one severity on any subset of the
\* results, on three core profiles.
ChooseGradeInput(g) ==
    \/ \E s \in SpfInputs, k \in DkimInputs, d \in DmarcInputs,
          o \in {OptionalNone, OptionalBest}, t \in {NoIssues, HeavyIssues} :
          g = WithIssues(Assemble(<<s, k, d>>, o), t, 1)
    \/ \E c \in CoreProfiles, b \in BimiInputs, m \in MtaStsInputs, r \in TlsRptInputs,
          a \in ArcInputs, n \in DnssecInputs,
          t \in {NoIssues, [NoIssues EXCEPT !.critical = 1]} :
          g = WithIssues(Assemble(c, <<b, m, r, a, n>>), t, 5)
    \/ \E c \in CoreProfiles, o \in {OptionalNone, OptionalBest}, t \in Tallies, p \in 1..9 :
          g = WithIssues(Assemble(c, o), t, p)
    \/ \E c \in CoreProfiles, S \in SUBSET (1..9), sev \in {"critical", "high", "medium", "low"} :
          g = Spread(Assemble(c, OptionalBest), S, sev)

GradeArgs(g) ==
    calculateGrade(g.spf, g.dkim, g.dmarc, g.mx, g.bimi, g.mtaSts, g.tlsRpt, g.arc, g.dnssec)

\* calculateGrade is applied to the chosen results.
Grade ==
    /\ gIn # Undef
    /\ gOut = Undef
    /\ gOut' = GradeArgs(gIn)
    /\ UNCHANGED <<gIn, avars, svars, xvars>>

(***************************************************************************)
(* Check orchestrator (core/analyzer.ts)                                   *)
(***************************************************************************)
DEFAULT_TIMEOUT == 10000

CheckOrder == <<"spf", "dkim", "dmarc", "mx", "bimi", "mtaSts", "tlsRpt", "dnssec">>
Checks == {CheckOrder[i] : i \in 1..8}

CheckLabel(c) ==
    CASE c = "spf" -> "SPF" [] c = "dkim" -> "DKIM" [] c = "dmarc" -> "DMARC"
      [] c = "mx" -> "MX" [] c = "bimi" -> "BIMI" [] c = "mtaSts" -> "MTA-STS"
      [] c = "tlsRpt" -> "TLS-RPT" [] c = "dnssec" -> "DNSSEC"

Idle == [state |-> "idle"]
Pending == [state |-> "pending"]
Fulfilled(v) == [state |-> "fulfilled", value |-> v]
Rejected(m) == [state |-> "rejected", message |-> m]
Settled(p) == p.state \in {"fulfilled", "rejected"}

\* The shape of each result with every check-specific field unset.
EmptyResult(c) ==
    CASE c = "spf" -> SpfValue(FALSE, "undefined", None, <<>>)
      [] c = "dkim" -> DkimValue(FALSE, <<>>, <<>>)
      [] c = "dmarc" -> DmarcValue(FALSE, "undefined", FALSE, None, <<>>)
      [] c = "mx" -> MxValue(FALSE, <<>>, <<>>)
      [] c = "bimi" -> BimiValue(FALSE, "undefined", <<>>)
      [] c = "mtaSts" -> MtaStsValue(FALSE, None, <<>>)
      [] c = "tlsRpt" -> TlsRptValue(FALSE, <<>>, <<>>)

\* What a disabled check's slot resolves with.
DisabledValue(c) == IF c \in {"spf", "dkim", "dmarc", "mx"} THEN EmptyResult(c) ELSE Undef

createFailedResult(checkName, error, defaults) ==
    [defaults EXCEPT
        !.found = FALSE,
        !.issues = <<IssueR("high", checkName \o " check failed: " \o error,
                            "Check DNS configuration and try again")>>]

\* reason?.message || 'Unknown error'
messageOr(m) == IF m = "" THEN "Unknown error" ELSE m

\* The slot of a rejected check, filled with the empty result instead of a failed one.
extractResultSilently(c, w) ==
    IF w.state = "fulfilled" THEN w.value
    ELSE IF c = "dnssec" THEN [enabled |-> FALSE, issues |-> <<>>]
    ELSE EmptyResult(c)

\* Lines 277-308: the settled slot of check c turned into its result.
extractResult(c, w) ==
    IF w.state = "fulfilled" THEN w.value
    ELSE IF c = "dnssec"
         THEN [enabled |-> FALSE,
               issues |-> <<Issue("high", "DNSSEC check failed: " \o messageOr(w.message))>>]
         ELSE createFailedResult(CheckLabel(c), messageOr(w.message), EmptyResult(c))

\* A prerequisite check that looks at the policy none only.
bimiPrerequisiteNoneOnly(bimi, dmarc) ==
    IF IsDef(bimi) /\ bimi.found /\ dmarc.found /\ dmarc.policy = "none"
    THEN [bimi EXCEPT !.issues = @ \o
            <<IssueR("high", "BIMI requires DMARC policy of quarantine or reject",
                     "Upgrade DMARC policy from none to quarantine or reject")>>]
    ELSE bimi

bimiPrerequisite(bimi, dmarc) ==
    IF IsDef(bimi) /\ bimi.found
    THEN IF ~dmarc.found
         THEN [bimi EXCEPT !.issues = @ \o
                 <<IssueR("high", "BIMI requires DMARC to be configured",
                          "Add a DMARC record with p=quarantine or p=reject")>>]
         ELSE IF dmarc.policy = "none" \/ dmarc.policy = "undefined"
         THEN [bimi EXCEPT !.issues = @ \o
                 <<IssueR("high", "BIMI requires DMARC policy of quarantine or reject",
                          "Upgrade DMARC policy from none to quarantine or reject")>>]
         ELSE bimi
    ELSE bimi

mxHostOf(r) == stripTrailingDot(toLowerCase(r.exchange))

patternMatches(pattern, mxHost) ==
    LET p == toLowerCase(pattern)
    IN  IF startsWith(p, <<"*", ".">>)
        THEN endsWith(mxHost, SubSeq(p, 2, Len(p))) \/ mxHost = SubSeq(p, 3, Len(p))
        ELSE mxHost = p

uncoveredIssue(mxHost) ==
    [severity |-> "high", message |-> "MX host not covered by MTA-STS policy",
     recommendation |-> "Add mx: host or appropriate wildcard to MTA-STS policy",
     host |-> mxHost]

mtaStsMxConsistency(mtaSts, mx) ==
    IF IsDef(mtaSts) /\ mtaSts.found /\ mtaSts.policy # None
       /\ Len(mtaSts.policy[1].mx) > 0 /\ mx.found
    THEN LET patterns == mtaSts.policy[1].mx
             hosts == [i \in 1..Len(mx.records) |-> mxHostOf(mx.records[i])]
             uncovered ==
                 SelectSeq(hosts, LAMBDA h : ~\E k \in 1..Len(patterns) : patternMatches(patterns[k], h))
         IN  [mtaSts EXCEPT !.issues = @ \o [i \in 1..Len(uncovered) |-> uncoveredIssue(uncovered[i])]]
    ELSE mtaSts

\* `${reason?.message}`: a reason without a message reads "undefined"
templateText(m) == IF m = "" THEN "undefined" ELSE m

\* The error list of the first version: the four core checks only.
RECURSIVE joinErrorsCoreOnly(_, _)
joinErrorsCoreOnly(w, k) ==
    IF k > 4 THEN <<>>
    ELSE (IF w[CheckOrder[k]].state = "rejected"
          THEN <<CheckLabel(CheckOrder[k]) \o ": " \o templateText(w[CheckOrder[k]].message)>>
          ELSE <<>>) \o joinErrorsCoreOnly(w, k + 1)

\* errors.join('; ') over the rejected slots, in the order of the checks
RECURSIVE joinErrors(_, _)
joinErrors(w, k) ==
    IF k > 8 THEN <<>>
    ELSE (IF w[CheckOrder[k]].state = "rejected"
          THEN <<CheckLabel(CheckOrder[k]) \o ": " \o templateText(w[CheckOrder[k]].message)>>
          ELSE <<>>) \o joinErrors(w, k + 1)
RECURSIVE joinWith(_, _)
joinWith(parts, sep) ==
    IF Len(parts) = 1 THEN parts[1] ELSE parts[1] \o sep \o joinWith(Tail(parts), sep)
errorField(w) ==
    LET errors == joinErrors(w, 1)
    IN  IF Len(errors) > 0 THEN Some(joinWith(errors, "; ")) ELSE None

\* Lines 219-230: the result for a domain that fails validation.
invalidDomainResult(d) ==
    [domain |-> d, grade |-> "F", score |-> 0,
     spf |-> EmptyResult("spf"), dkim |-> EmptyResult("dkim"),
     dmarc |-> EmptyResult("dmarc"), mx |-> EmptyResult("mx"),
     bimi |-> Undef, mtaSts |-> Undef, tlsRpt |-> Undef, arc |-> Undef, dnssec |-> Undef,
     recommendations |-> <<>>,
     error |-> Some(<<"Invalid domain format: ", d>>)]

\* Lines 356-386: the grade, the recommendations and the returned object.
gradedResult(d, w, spf, dkim, dmarc, mx, bimi, mtaSts, tlsRpt, arc, dnssec) ==
    TheOne({[domain |-> d, grade |-> g.grade, score |-> g.score,
             spf |-> spf, dkim |-> dkim, dmarc |-> dmarc, mx |-> mx,
             bimi |-> bimi, mtaSts |-> mtaSts, tlsRpt |-> tlsRpt, arc |-> arc,
             dnssec |-> dnssec,
             recommendations |->
                 generateRecommendations(spf, dkim, dmarc, mx, bimi, mtaSts, tlsRpt, arc,
                                         dnssec),
             error |-> errorField(w)] :
            g \in {calculateGrade(spf, dkim, dmarc, mx, bimi, mtaSts, tlsRpt, arc, dnssec)}})

\* Lines 310-354: the derived ARC result and the two cross-checks.
crossChecked(d, w, spf, dkim, dmarc, mx, bimi0, mtaSts0, tlsRpt, dnssec) ==
    TheOne({gradedResult(d, w, spf, dkim, dmarc, mx, bimi, mtaSts, tlsRpt, arc, dnssec) :
              arc \in {checkARCReadiness(spf, dkim, dmarc)},
              bimi \in {bimiPrerequisite(bimi0, dmarc)},
              mtaSts \in {mtaStsMxConsistency(mtaSts0, mx)}})

\* Lines 276-386: everything analyzeDomain does once Promise.allSettled resolved.
domainResult(d, w) ==
    TheOne({crossChecked(d, w, spf, dkim, dmarc, mx, bimi0, mtaSts0, tlsRpt, dnssec) :
              spf \in {extractResult("spf", w["spf"])},
              dkim \in {extractResult("dkim", w["dkim"])},
              dmarc \in {extractResult("dmarc", w["dmarc"])},
              mx \in {extractResult("mx", w["mx"])},
              bimi0 \in {extractResult("bimi", w["bimi"])},
              mtaSts0 \in {extractResult("mtaSts", w["mtaSts"])},
              tlsRpt \in {extractResult("tlsRpt", w["tlsRpt"])},
              dnssec \in {extractResult("dnssec", w["dnssec"])}})

(***************************************************************************)
(* analyzeDomain as a state machine                                        *)
(***************************************************************************)
MaxEnabled == 2          \* the most checks a caller leaves enabled
MaxTime == 10000         \* the clock stops advancing here
TickMs == 5000           \* one step of the clock

Timeouts == {0, 5000}    \* options.timeout (0: not given)

EnabledSets == {S \in SUBSET Checks : Cardinality(S) <= MaxEnabled}

A_B == <<"a", ".", "b">>
MX_A_B == <<"M", "X", ".", "a", ".", "b", ".">>
MX_C_D == <<"m", "x", ".", "c", ".", "d">>
STAR_A_B == <<"*", ".", "A", ".", "b">>
A_B_DOT == <<"A", ".", "b", ".">>
MX_C_D_UP == <<"M", "x", ".", "c", ".", "D">>

\* The caller's domain arguments: every short text over a small alphabet, and
\* longer ones for the length rules and the URL form.
InputAlphabet == {"a", "B", ".", "-", " ", "_"}
MaxInputLen == 3
LongInputs ==
    {A_B, <<" ">> \o A_B \o <<".">>, HTTPS \o A_B \o <<"/", "x">>, HTTP \o <<"a">>,
     Rep("a", MAX_LABEL_LENGTH) \o <<".", "b">>,
     Rep("a", MAX_LABEL_LENGTH + 1) \o <<".", "b">>,
     Concat(Rep(Rep("a", 62) \o <<".">>, 4)) \o Rep("b", 5),
     Concat(Rep(Rep("a", 62) \o <<".">>, 4)) \o Rep("b", 6),
     <<"a", ".", "b", "-">>, <<"a", ".", ".", "b">>, <<"x", "n", "-", "-", "a", ".", "b">>}

\* What each check can resolve with.
ProbeValues(c) ==
    CASE c = "spf" -> {SpfValue(TRUE, "-all", Some(3), <<>>),
                       SpfValue(FALSE, "undefined", None, <<Issue("high", "No SPF record found")>>)}
      [] c = "dkim" -> {DkimValue(TRUE, <<Selector("rsa", Some(2048))>>, <<>>),
                        DkimValue(FALSE, <<>>, <<Issue("high", "No DKIM records found")>>)}
      [] c = "dmarc" -> {DmarcValue(TRUE, "reject", TRUE, None, <<>>),
                         DmarcValue(TRUE, "none", TRUE, None, <<Issue("medium", "policy none")>>),
                         DmarcValue(TRUE, "quarantine", TRUE, None, <<>>),
                         DmarcValue(TRUE, "undefined", TRUE, None,
                                    <<Issue("high", "No DMARC policy")>>),
                         DmarcValue(FALSE, "undefined", FALSE, None,
                                    <<Issue("critical", "No DMARC record found")>>)}
      [] c = "mx" -> {MxValue(TRUE, <<[exchange |-> MX_A_B, priority |-> 10],
                                      [exchange |-> MX_C_D, priority |-> 20]>>, <<>>),
                      MxValue(TRUE, <<[exchange |-> A_B_DOT, priority |-> 10]>>, <<>>),
                      MxValue(FALSE, <<>>, <<Issue("info", "No MX records found")>>)}
      [] c = "bimi" -> {BimiValue(TRUE, "undefined", <<>>),
                        BimiValue(TRUE, "https://example.com/vmc.pem",
                                  <<Issue("low", "SVG not verified")>>),
                        BimiValue(FALSE, "undefined", <<>>)}
      [] c = "mtaSts" -> {MtaStsValue(TRUE, Some([mode |-> "enforce", mx |-> <<STAR_A_B>>]), <<>>),
                          MtaStsValue(TRUE, Some([mode |-> "testing", mx |-> <<MX_C_D_UP, STAR_A_B>>]),
                                      <<Issue("medium", "MTA-STS in testing mode")>>),
                          MtaStsValue(TRUE, Some([mode |-> "enforce", mx |-> <<>>]), <<>>),
                          MtaStsValue(FALSE, None, <<>>)}
      [] c = "tlsRpt" -> {TlsRptValue(TRUE, <<"mailto:tls@example.com">>, <<>>),
                          TlsRptValue(FALSE, <<>>, <<>>)}
      [] c = "dnssec" -> {DnssecValue(TRUE, TRUE, <<>>), DnssecValue(FALSE, FALSE, <<>>)}

\* The messages of the errors a check can throw.
ErrorMessages == {"queryTxt ESERVFAIL", ""}

timeoutOfNever(opts) == MaxTime + TickMs + 1
\* Line 236: options.timeout || 10000
timeoutOf(opts) == IF opts.timeout = 0 THEN DEFAULT_TIMEOUT ELSE opts.timeout

\* Lines 215-271: normalization, validation and the launch of the checks.
AnalyzeDomainStart ==
    /\ pc = "start"
    /\ domain' = normalizeDomain(input)
    /\ IF ~isValidDomain(domain')
       THEN /\ result' = invalidDomainResult(domain')
            /\ pc' = "done"
            /\ UNCHANGED <<probe, wrapped, timer, deadline>>
       ELSE /\ probe' = [c \in Checks |-> IF c \in options.checks THEN Pending ELSE Idle]
            /\ wrapped' = [c \in Checks |->
                             IF c \in options.checks THEN Pending ELSE Fulfilled(DisabledValue(c))]
            /\ timer' = [c \in Checks |-> IF c \in options.checks THEN "armed" ELSE "none"]
            /\ deadline' = now + timeoutOf(options)
            /\ pc' = "waiting"
            /\ UNCHANGED result
    /\ UNCHANGED <<input, options, now, gvars, svars, xvars>>

\* A race that lets a late settlement replace the timeout's rejection.
ProbeSettleAdoptingLate(c, s) ==
    /\ pc \in {"waiting", "done"}
    /\ probe[c] = Pending
    /\ probe' = [probe EXCEPT ![c] = s]
    /\ wrapped' = [wrapped EXCEPT ![c] = s]
    /\ timer' = [timer EXCEPT ![c] = IF @ = "armed" THEN "cleared" ELSE @]
    /\ UNCHANGED <<input, domain, pc, options, now, deadline, result, gvars, svars, xvars>>

\* The first version of wrapWithTimeout: no finally block, the timer stays armed.
ProbeSettleLeakingTimer(c, s) ==
    /\ pc \in {"waiting", "done"}
    /\ probe[c] = Pending
    /\ probe' = [probe EXCEPT ![c] = s]
    /\ wrapped' = IF wrapped[c] = Pending THEN [wrapped EXCEPT ![c] = s] ELSE wrapped
    /\ UNCHANGED <<input, domain, pc, options, now, deadline, result, timer, gvars, svars,
                   xvars>>

\* The promise of check c settles with s. Promise.race adopts it, and the finally
\* block clears the timer, unless the timeout already won the race.
ProbeSettle(c, s) ==
    /\ pc \in {"waiting", "done"}
    /\ probe[c] = Pending
    /\ probe' = [probe EXCEPT ![c] = s]
    /\ IF wrapped[c] = Pending
       THEN /\ wrapped' = [wrapped EXCEPT ![c] = s]
            /\ timer' = [timer EXCEPT ![c] = "cleared"]
       ELSE UNCHANGED <<wrapped, timer>>
    /\ UNCHANGED <<input, domain, pc, options, now, deadline, result, gvars, svars, xvars>>

ProbeFulfil(c) == \E v \in ProbeValues(c) : ProbeSettle(c, Fulfilled(v))

ProbeReject(c) == \E m \in ErrorMessages : ProbeSettle(c, Rejected(m))

\* Time passes.
Tick ==
    /\ pc = "waiting"
    /\ now < MaxTime
    /\ now' = now + TickMs
    /\ UNCHANGED <<input, domain, pc, options, probe, wrapped, timer, deadline, result,
                   gvars, svars, xvars>>

\* Line 247: the timer of check c goes off and rejects the race.
TimerFire(c) ==
    /\ timer[c] = "armed"
    /\ now >= deadline
    /\ timer' = [timer EXCEPT ![c] = "fired"]
    /\ wrapped' = [wrapped EXCEPT ![c] = Rejected(CheckLabel(c) \o " check timed out")]
    /\ UNCHANGED <<input, domain, pc, options, now, probe, deadline, result, gvars, svars, xvars>>

\* Lines 274-386: Promise.allSettled resolved.
AnalyzeDomainFinish ==
    /\ pc = "waiting"
    /\ \A c \in Checks : Settled(wrapped[c])
    /\ result' = domainResult(domain, wrapped)
    /\ pc' = "done"
    /\ UNCHANGED <<input, domain, options, now, probe, wrapped, timer, deadline, gvars, svars, xvars>>

Inputs == SeqsUpTo(InputAlphabet, MaxInputLen) \cup LongInputs

AnalyzerIdle ==
    /\ input = <<>> /\ domain = <<>> /\ pc = "idle"
    /\ options = [checks |-> {}, timeout |-> 0]
    /\ now = 0 /\ deadline = 0
    /\ probe = [c \in Checks |-> Idle] /\ wrapped = [c \in Checks |-> Idle]
    /\ timer = [c \in Checks |-> "none"]
    /\ result = Undef

GradeIdle == gIn = Undef /\ gOut = Undef

SpfIdle ==
    /\ dnsEnv = <<>> /\ apex = <<>> /\ spfPc = "idle" /\ stack = <<>> /\ visited = {}
    /\ ret = Undef /\ queries = <<>> /\ maxDepthEvaluated = 0 /\ spfOut = Undef

MultiIdle ==
    /\ mDomains = <<>> /\ mOptions = [concurrency |-> 0] /\ mPc = "idle" /\ mI = 0
    /\ mCalls = <<>> /\ mResults = <<>> /\ mOut = Undef

DnsIdle == dnsCache = <<>> /\ dnsNow = 0 /\ dnsTasks = <<>> /\ dnsQueries = <<>>

\* analyzeDomain(input, options) has been called: with any input, or with any
\* options.  (What the checks of a valid name do does not depend on the name.)
Init ==
    /\ \/ input \in Inputs /\ options \in [checks : {{}, {"spf", "dnssec"}}, timeout : {0}]
       \/ input = A_B /\ options \in [checks : EnabledSets, timeout : Timeouts]
    /\ domain = <<>> /\ pc = "start" /\ now = 0 /\ deadline = 0
    /\ probe = [c \in Checks |-> Idle] /\ wrapped = [c \in Checks |-> Idle]
    /\ timer = [c \in Checks |-> "none"]
    /\ result = Undef
    /\ GradeIdle /\ SpfIdle /\ MultiIdle /\ DnsIdle

Next ==
    \/ AnalyzeDomainStart
    \/ \E c \in Checks : ProbeFulfil(c)
    \/ \E c \in Checks : ProbeReject(c)
    \/ Tick
    \/ \E c \in Checks : TimerFire(c)
    \/ AnalyzeDomainFinish

Spec == Init /\ [][Next]_vars

\* The event loop runs every callback that is due: the clock advances, a timer
\* that is due fires, and a continuation whose promise resolved runs.  Nothing
\* obliges a check's own promise to settle.
\* The calls whose liveness is examined: a valid and an invalid name, with any
\* of these checks left enabled.
FairChecks == {"spf", "mtaSts", "dnssec"}
FairInit == Init /\ input \in {A_B, <<"a">>} /\ options.checks \subseteq FairChecks

FairSpec ==
    /\ FairInit /\ [][Next]_vars
    /\ WF_vars(AnalyzeDomainStart)
    /\ WF_vars(Tick)
    /\ WF_vars(\E c \in Checks : TimerFire(c))
    /\ WF_vars(AnalyzeDomainFinish)

\* calculateGrade(results) has been called.
GradeInit ==
    /\ ChooseGradeInput(gIn)
    /\ gOut = Undef
    /\ AnalyzerIdle /\ SpfIdle /\ MultiIdle /\ DnsIdle

GradeNext == Grade

GradeSpec == GradeInit /\ [][GradeNext]_vars

(***************************************************************************)
(* Properties of calculateGrade                                            *)
(***************************************************************************)
\* The score of g before any clamp is applied.
RawScore(g) ==
    FinalScoreUnclamped(
        BasePoints(g.spf, g.dkim, g.dmarc),
        BonusPoints(g.dmarc, g.bimi, g.mtaSts, g.tlsRpt, g.arc, g.dnssec),
        calculateIssuePenalty(g.spf, g.dkim, g.dmarc, g.mx, g.bimi, g.mtaSts, g.tlsRpt,
                              g.arc, g.dnssec))

\* C4: whatever the check results are, the score calculateGrade returns lies
\* between 0 and 100.
C4_ScoreInRange == gOut # Undef => gOut.score \in 0..100

\* calculateGrade returned for results whose penalties exceed the points earned.
C4_Witness == gOut # Undef /\ RawScore(gIn) < 0 /\ gOut.score = 0

GradeRank(g) ==
    CASE g = "A" -> 5 [] g = "B" -> 4 [] g = "C" -> 3 [] g = "D" -> 2 [] g = "F" -> 1

GradeMonotonic ==
    \A s, t \in 0..100 : s <= t => GradeRank(GradeOf(s)) <= GradeRank(GradeOf(t))

\* C5: the grade is a function of the score alone: A iff score >= 90, B iff
\* 75 <= score < 90, C iff 50 <= score < 75, D iff 25 <= score < 50, F iff
\* score < 25; and over 0..100 a higher score never has a worse grade.
C5_GradeBands ==
    /\ gOut # Undef =>
          /\ gOut.grade = GradeOf(gOut.score)
          /\ (gOut.grade = "A") <=> (gOut.score >= 90)
          /\ (gOut.grade = "B") <=> (75 <= gOut.score /\ gOut.score < 90)
          /\ (gOut.grade = "C") <=> (50 <= gOut.score /\ gOut.score < 75)
          /\ (gOut.grade = "D") <=> (25 <= gOut.score /\ gOut.score < 50)
          /\ (gOut.grade = "F") <=> (gOut.score < 25)
    /\ GradeMonotonic

\* calculateGrade returned a score on a band's lower edge.
C5_Witness == gOut # Undef /\ gOut.score = 75 /\ gOut.grade = "B"

(***************************************************************************)
(* Properties of analyzeDomain                                             *)
(***************************************************************************)
Grades == {"A", "B", "C", "D", "F"}

\* analyzeDomain returned after running the checks.
Analyzed == pc = "done" /\ isValidDomain(domain)

RejectedChecks == {c \in Checks : wrapped[c].state = "rejected"}
FulfilledChecks == {c \in Checks : wrapped[c].state = "fulfilled"}

\* r carries exactly one issue, of high severity, naming the check and the reason.
OneFailureIssue(c, r, reason) ==
    /\ Len(r.issues) = 1
    /\ r.issues[1].severity = "high"
    /\ r.issues[1].message = CheckLabel(c) \o " check failed: " \o reason

\* r is v, possibly with further issues after v's own.
SameButIssuesAppended(r, v) ==
    IF IsDef(v)
    THEN /\ IsDef(r)
         /\ [r EXCEPT !.issues = v.issues] = v
         /\ Len(r.issues) >= Len(v.issues)
         /\ SubSeq(r.issues, 1, Len(v.issues)) = v.issues
    ELSE r = v

C2_InvalidDomainTerminal ==
    /\ pc # "start" => domain = normalizeDomain(input)
    /\ (pc # "start" /\ (~isValidDomain(domain) \/ \A i \in DOMAIN domain : domain[i] # ".")) =>
          /\ pc = "done"
          /\ result.domain = domain
          /\ result.grade = "F" /\ result.score = 0
          /\ \A c \in {"spf", "dkim", "dmarc", "mx"} :
                ~result[c].found /\ result[c].issues = <<>>
          /\ result.dkim.selectors = <<>> /\ result.mx.records = <<>>
          /\ \A c \in {"bimi", "mtaSts", "tlsRpt", "arc", "dnssec"} : result[c] = Undef
          /\ result.recommendations = <<>>
          /\ result.error = Some(<<"Invalid domain format: ", domain>>)
          /\ \A c \in Checks : probe[c] = Idle /\ wrapped[c] = Idle /\ timer[c] = "none"

\* analyzeDomain returned for a name with an over-long label although checks are enabled.
C2_Witness ==
    /\ pc = "done" /\ ~isValidDomain(domain)
    /\ Len(domain) > MAX_LABEL_LENGTH /\ options.checks # {}

\* C3: the timers are due timeout ms (10000 when not given) after the launch; a
\* timer fires no earlier and rejects its check with "<Check> check timed out";
\* the check is then reported like one that threw; and analyzeDomain always
\* eventually returns, whether the probes settle or not.
C3_TimeoutThenReturns ==
    /\ [](pc = "waiting" =>
            deadline = IF options.timeout = 0 THEN 10000 ELSE options.timeout)
    /\ [](\A c \in Checks : timer[c] = "fired" =>
            /\ now >= deadline
            /\ wrapped[c] = Rejected(CheckLabel(c) \o " check timed out"))
    /\ [](Analyzed =>
            \A c \in Checks : timer[c] = "fired" =>
                OneFailureIssue(c, result[c], CheckLabel(c) \o " check timed out"))
    /\ <>(pc = "done")

\* analyzeDomain returned although a probe is still pending: its timer fired.
C3_Witness ==
    /\ Analyzed
    /\ \E c \in Checks : probe[c] = Pending /\ timer[c] = "fired"

(***************************************************************************)
(* SPF evaluator (checks/spf.ts): the text of a record                     *)
(***************************************************************************)
SPF_MAX_DNS_LOOKUPS == 10
SPF_MAX_RECURSION_DEPTH == 10

V_SPF1 == <<"v", "=", "s", "p", "f", "1">>
INCLUDE_COLON == <<"i", "n", "c", "l", "u", "d", "e", ":">>
REDIRECT_EQ == <<"r", "e", "d", "i", "r", "e", "c", "t", "=">>
EXISTS_COLON == <<"e", "x", "i", "s", "t", "s", ":">>
ALL == <<"a", "l", "l">>
Qualifiers == {"+", "-", "~", "?"}

\* The elements of a set of numbers in increasing order.
Ascending(S) ==
    TheOne({[k \in 1..Cardinality(T) |-> CHOOSE x \in T : Cardinality({y \in T : y < x}) = k - 1] :
            T \in {S}})

\* \b before a word character at place i
BoundaryBefore(s, i) == i = 1 \/ ~IsWordChar(s[i - 1])

\* The places where /\b<word>(:|\/|\s|$)/g matches in s.
mechanismMatches(s, word) ==
    TheOne({{i \in 1..Len(t) :
                /\ MatchAt(t, word, i)
                /\ BoundaryBefore(t, i)
                /\ \/ i + Len(word) > Len(t)
                   \/ t[i + Len(word)] \in {":", "/"} \cup Whitespace} :
            t \in {s}})

\* The places where /\bexists:/g matches in s.
existsMatches(s) ==
    TheOne({{i \in 1..Len(t) : MatchAt(t, EXISTS_COLON, i) /\ BoundaryBefore(t, i)} : t \in {s}})

\* Lines 238-251: the lookups of the a, mx, ptr and exists mechanisms.
directLookups(lower) ==
    TheOne({Cardinality(mechanismMatches(s, <<"a">>))
            + Cardinality(mechanismMatches(s, <<"m", "x">>))
            + Cardinality(mechanismMatches(s, <<"p", "t", "r">>))
            + Cardinality(existsMatches(s)) :
            s \in {lower}})

\* The last place of the run of non-blank characters that place i starts.
runEnd(s, i) ==
    IF \E k \in i..Len(s) : s[k] \in Whitespace
    THEN (CHOOSE k \in i..Len(s) : s[k] \in Whitespace /\ \A j \in i..(k - 1) : s[j] \notin Whitespace) - 1
    ELSE Len(s)

\* The places where <prefix>([^\s]+) can match in s, case-insensitively.
prefixCandidates(s, prefix) ==
    TheOne({{i \in 1..Len(t) :
                /\ MatchAt(lower, prefix, i)
                /\ i + Len(prefix) <= Len(t)
                /\ t[i + Len(prefix)] \notin Whitespace} :
            t \in {s}, lower \in {toLowerCase(s)}})

\* The places where successive /<prefix>([^\s]+)/g matches start: a match runs to
\* the next blank, so a candidate inside an earlier match is passed over.
prefixMatches(s, prefix) ==
    TheOne({{i \in c : \A h \in c : h < i => \E k \in h..i : t[k] \in Whitespace} :
            t \in {s}, c \in {prefixCandidates(s, prefix)}})

capture(s, prefix, i) == SubSeq(s, i + Len(prefix), runEnd(s, i + Len(prefix)))

\* /include:([^\s]+)/gi: the targets in the order of the record
extractIncludes(record) ==
    TheOne({TheOne({[k \in DOMAIN starts |-> capture(r, INCLUDE_COLON, starts[k])] \o <<>> :
                    starts \in {Ascending(prefixMatches(r, INCLUDE_COLON))}}) :
            r \in {record}})

\* lower.match(/redirect=([^\s]+)/): the first target, if any
redirectTarget(lower) ==
    TheOne({IF Len(starts) = 0 THEN None ELSE Some(capture(lower, REDIRECT_EQ, starts[1])) :
            starts \in {Ascending(prefixMatches(lower, REDIRECT_EQ))}})

\* The places where all\b matches, case-insensitively.
allMatches(record) ==
    TheOne({{i \in 1..Len(record) :
                /\ MatchAt(lower, ALL, i)
                /\ (i + 3 > Len(record) \/ ~IsWordChar(record[i + 3]))} :
            lower \in {toLowerCase(record)}})

\* record.match(/([+\-~?]?)all\b/i): the leftmost match decides
extractMechanism(record) ==
    TheOne({IF m = {} THEN "undefined"
            ELSE LET j == CHOOSE i \in m : \A h \in m : i <= h
                 IN  (IF j > 1 /\ record[j - 1] \in Qualifiers THEN record[j - 1] ELSE "+") \o "all" :
            m \in {allMatches(record)}})

startsWithSpf(r) == startsWith(toLowerCase(r), V_SPF1)

(***************************************************************************)
(* SPF evaluator: the DNS it queries                                       *)
(***************************************************************************)
\* dnsEnv maps a name to what its TXT query gives: the records, or an error
\* code.  Names are compared without regard to case; a name the environment
\* does not know does not exist.
Txt(records) == [records |-> records]
DnsError(code) == [code |-> code]

resolveTxt(env, name) ==
    TheOne({IF n \in DOMAIN env THEN env[n] ELSE DnsError("ENOTFOUND") : n \in {toLowerCase(name)}})

\* Lines 262-264: the first record of the answer that starts with v=spf1
findSpf(answer) ==
    TheOne({IF "records" \in DOMAIN a /\ \E i \in DOMAIN a.records : startsWithSpf(a.records[i])
            THEN Some(a.records[CHOOSE i \in DOMAIN a.records :
                                   /\ startsWithSpf(a.records[i])
                                   /\ \A h \in 1..(i - 1) : ~startsWithSpf(a.records[h])])
            ELSE None :
            a \in {answer}})

\* utils/dns.ts
isDNSNotFoundError(answer) == "code" \in DOMAIN answer /\ answer.code \in {"ENOTFOUND", "ENODATA"}

(***************************************************************************)
(* SPF evaluator: countDNSLookupsRecursive and checkSPF                    *)
(***************************************************************************)
LookupResult(count, loop, limit, fi, fr) ==
    [count |-> count, loopDetected |-> loop, depthLimitReached |-> limit,
     failedIncludes |-> fi, failedRedirects |-> fr]

\* One call of countDNSLookupsRecursive: its arguments, its locals and where it stands.
Frame(d, record, depth) ==
    [domain |-> d, record |-> record, depth |-> depth, at |-> "enter",
     count |-> 0, loopDetected |-> FALSE, depthLimitReached |-> FALSE,
     failedIncludes |-> <<>>, failedRedirects |-> <<>>, todo |-> <<>>]

\* Lines 206-208: the record hash is taken to tell any two records apart.
recordKey(d, record) == <<toLowerCase(d), record>>

Top == stack[Len(stack)]
WithTop(f) == [stack EXCEPT ![Len(stack)] = f]
Pop == SubSeq(stack, 1, Len(stack) - 1)

\* A merge that adds the count of a nested call and forgets what it reported.
mergedCountOnly(f, r) == [f EXCEPT !.count = @ + r.count]

\* Lines 273-277 and 307-311: the result of a nested call added to the caller's.
merged(f, r) ==
    [f EXCEPT !.count = @ + r.count,
              !.loopDetected = @ \/ r.loopDetected,
              !.depthLimitReached = @ \/ r.depthLimitReached,
              !.failedIncludes = @ \o r.failedIncludes,
              !.failedRedirects = @ \o r.failedRedirects]

\* An issue whose message names a value.
IssueD(sev, msg, rec, detail) ==
    [severity |-> sev, message |-> msg, recommendation |-> rec, detail |-> detail]

\* The list as it is, repetitions included.
keepRepetitions(list) == list

\* Array.from(new Set(list)): the first occurrence of each element, in order
dedupe(list) ==
    TheOne({TheOne({[k \in DOMAIN keep |-> l[keep[k]]] \o <<>> :
                    keep \in {Ascending({i \in DOMAIN l : \A h \in 1..(i - 1) : l[h] # l[i]})}}) :
            l \in {list}})

NoSpfRecord ==
    [found |-> FALSE,
     issues |-> <<IssueR("critical", "No SPF record found",
                         "Add an SPF record to prevent email spoofing")>>]

\* Lines 80-107: the verdict on the all mechanism
mechanismIssues(mechanism) ==
    CASE mechanism = "+all" ->
            <<IssueR("critical", "SPF uses +all (pass all) - effectively no protection",
                     "Change to -all (hardfail) for maximum protection")>>
      [] mechanism = "?all" ->
            <<IssueR("high", "SPF uses ?all (neutral) - weak protection",
                     "Change to -all (hardfail) for maximum protection")>>
      [] mechanism = "~all" ->
            <<IssueR("medium", "SPF uses ~all (softfail) - consider using hardfail",
                     "Change to -all (hardfail) when ready for stricter enforcement")>>
      [] mechanism = "-all" -> <<>>
      [] OTHER ->
            <<IssueR("high", "SPF record has no all mechanism",
                     "Add -all at the end of your SPF record")>>

\* Lines 109-122
lookupLimitIssues(lookupCount) ==
    IF lookupCount > SPF_MAX_DNS_LOOKUPS
    THEN <<IssueD("high", "SPF record exceeds DNS lookup limit",
                  "Reduce the number of include/redirect mechanisms or flatten the SPF record",
                  lookupCount)>>
    ELSE IF lookupCount > 7
    THEN <<IssueD("medium", "SPF record is close to DNS lookup limit",
                  "Consider flattening SPF record to avoid future issues", lookupCount)>>
    ELSE <<>>

\* Lines 45-140: checkSPF after the lookups were counted
spfResult(f, r) ==
    TheOne({[found |-> TRUE, record |-> f.record, mechanism |-> extractMechanism(f.record),
             lookupCount |-> Some(r.count), includes |-> extractIncludes(f.record),
             issues |->
                 f.issues
                 \o When(r.loopDetected,
                         IssueR("high", "SPF record contains circular reference",
                                "Remove circular include/redirect references"))
                 \o When(r.depthLimitReached,
                         IssueR("high", "SPF record analysis exceeded recursion depth limit",
                                "Simplify include/redirect chains to avoid excessive nesting"))
                 \o [k \in DOMAIN fi |->
                        IssueD("high", "SPF include target not found",
                               "Ensure the include domain publishes a valid SPF record", fi[k])]
                 \o [k \in DOMAIN fr |->
                        IssueD("high", "SPF redirect target not found",
                               "Ensure the redirect domain publishes a valid SPF record", fr[k])]
                 \o mechanismIssues(extractMechanism(f.record))
                 \o lookupLimitIssues(r.count)
                 \o When(mechanismMatches(toLowerCase(f.record), <<"p", "t", "r">>) # {},
                         IssueR("medium", "SPF record uses deprecated ptr mechanism",
                                "Replace ptr with explicit IP ranges or include statements"))] :
            fi \in {dedupe(r.failedIncludes)}, fr \in {dedupe(r.failedRedirects)}})

\* Lines 15-44: the apex is queried and, if it publishes SPF, the count begins.
SpfStart ==
    /\ spfPc = "start"
    /\ queries' = <<apex>>
    /\ \E answer \in {resolveTxt(dnsEnv, apex)} :
          IF "code" \in DOMAIN answer
          THEN /\ spfOut' = IF isDNSNotFoundError(answer) THEN NoSpfRecord
                            ELSE [thrown |-> answer.code]
               /\ spfPc' = "done"
               /\ UNCHANGED stack
          ELSE \E spfRecords \in {SelectSeq(answer.records, startsWithSpf)} :
                  IF Len(spfRecords) = 0
                  THEN spfOut' = NoSpfRecord /\ spfPc' = "done" /\ UNCHANGED stack
                  ELSE /\ stack' =
                            <<[at |-> "checkSPF", record |-> spfRecords[1],
                               issues |->
                                   When(Len(spfRecords) > 1,
                                        IssueD("high", "Multiple SPF records found",
                                               "Only one SPF record should exist per domain",
                                               Len(spfRecords)))],
                              Frame(apex, spfRecords[1], 0)>>
                       /\ spfPc' = "counting"
                       /\ UNCHANGED spfOut
    /\ UNCHANGED <<dnsEnv, apex, visited, ret, maxDepthEvaluated, avars, gvars, xvars>>

\* A depth test that lets one more level through.
depthExceededByTwo(depth) == depth > SPF_MAX_RECURSION_DEPTH + 1

\* Line 193
depthExceeded(depth) == depth > SPF_MAX_RECURSION_DEPTH

\* Lines 193-251: a call starts: the depth limit, the cycle check, the direct lookups.
SpfEnter ==
    /\ spfPc = "counting" /\ Top.at = "enter"
    /\ IF depthExceeded(Top.depth)
       THEN /\ ret' = LookupResult(0, FALSE, TRUE, <<>>, <<>>)
            /\ stack' = Pop
            /\ UNCHANGED <<visited, maxDepthEvaluated>>
       ELSE IF recordKey(Top.domain, Top.record) \in visited
       THEN /\ ret' = LookupResult(0, TRUE, FALSE, <<>>, <<>>)
            /\ stack' = Pop
            /\ UNCHANGED <<visited, maxDepthEvaluated>>
       ELSE /\ visited' = visited \cup {recordKey(Top.domain, Top.record)}
            /\ stack' = WithTop([Top EXCEPT !.count = directLookups(toLowerCase(Top.record)),
                                            !.todo = extractIncludes(Top.record),
                                            !.at = "includes"])
            /\ maxDepthEvaluated' = Max(maxDepthEvaluated, Top.depth)
            /\ UNCHANGED ret
    /\ UNCHANGED <<dnsEnv, apex, spfPc, queries, spfOut, avars, gvars, xvars>>

\* Lines 256-285: the next include: is counted and its target queried; a target
\* that publishes SPF is evaluated by a nested call, any other is noted as failed.
SpfInclude ==
    /\ spfPc = "counting" /\ Top.at = "includes" /\ Top.todo # <<>>
    /\ \E target \in {Head(Top.todo)} :
          /\ queries' = Append(queries, target)
          /\ \E includeSPF \in {findSpf(resolveTxt(dnsEnv, target))} :
                IF includeSPF # None
                THEN stack' = Append(WithTop([Top EXCEPT !.count = @ + 1, !.at = "awaitInclude"]),
                                     Frame(target, includeSPF[1], Top.depth + 1))
                ELSE stack' = WithTop([Top EXCEPT !.count = @ + 1,
                                                  !.failedIncludes = Append(@, target),
                                                  !.todo = Tail(@)])
    /\ UNCHANGED <<dnsEnv, apex, spfPc, visited, ret, maxDepthEvaluated, spfOut, avars, gvars, xvars>>

\* A return that gives up the record when the nested call hit a loop or the limit.
SpfIncludeReturnStoppingOnHit ==
    /\ spfPc = "counting" /\ Top.at = "awaitInclude" /\ ret # Undef
    /\ stack' = WithTop(IF ret.loopDetected \/ ret.depthLimitReached
                        THEN [merged(Top, ret) EXCEPT !.todo = <<>>, !.at = "return"]
                        ELSE [merged(Top, ret) EXCEPT !.todo = Tail(@), !.at = "includes"])
    /\ ret' = Undef
    /\ UNCHANGED <<dnsEnv, apex, spfPc, visited, queries, maxDepthEvaluated, spfOut, avars, gvars, xvars>>

\* Lines 273-277: the nested call of an include: returned.
SpfIncludeReturn ==
    /\ spfPc = "counting" /\ Top.at = "awaitInclude" /\ ret # Undef
    /\ stack' = WithTop([merged(Top, ret) EXCEPT !.todo = Tail(@), !.at = "includes"])
    /\ ret' = Undef
    /\ UNCHANGED <<dnsEnv, apex, spfPc, visited, queries, maxDepthEvaluated, spfOut, avars, gvars, xvars>>

\* Lines 289-319: after the includes, the first redirect= of the record, if any.
SpfRedirect ==
    /\ spfPc = "counting" /\ Top.at = "includes" /\ Top.todo = <<>>
    /\ \E redirectMatch \in {redirectTarget(toLowerCase(Top.record))} :
          IF redirectMatch = None
          THEN stack' = WithTop([Top EXCEPT !.at = "return"]) /\ UNCHANGED queries
          ELSE /\ queries' = Append(queries, redirectMatch[1])
               /\ \E redirectSPF \in {findSpf(resolveTxt(dnsEnv, redirectMatch[1]))} :
                     IF redirectSPF # None
                     THEN stack' =
                              Append(WithTop([Top EXCEPT !.count = @ + 1, !.at = "awaitRedirect"]),
                                     Frame(redirectMatch[1], redirectSPF[1], Top.depth + 1))
                     ELSE stack' =
                              WithTop([Top EXCEPT !.count = @ + 1,
                                                  !.failedRedirects = Append(@, redirectMatch[1]),
                                                  !.at = "return"])
    /\ UNCHANGED <<dnsEnv, apex, spfPc, visited, ret, maxDepthEvaluated, spfOut, avars, gvars, xvars>>

\* Lines 307-311: the nested call of the redirect returned.
SpfRedirectReturn ==
    /\ spfPc = "counting" /\ Top.at = "awaitRedirect" /\ ret # Undef
    /\ stack' = WithTop([merged(Top, ret) EXCEPT !.at = "return"])
    /\ ret' = Undef
    /\ UNCHANGED <<dnsEnv, apex, spfPc, visited, queries, maxDepthEvaluated, spfOut, avars, gvars, xvars>>

\* Lines 321-327: the call returns what it counted.
SpfReturn ==
    /\ spfPc = "counting" /\ Top.at = "return"
    /\ ret' = LookupResult(Top.count, Top.loopDetected, Top.depthLimitReached,
                           Top.failedIncludes, Top.failedRedirects)
    /\ stack' = Pop
    /\ UNCHANGED <<dnsEnv, apex, spfPc, visited, queries, maxDepthEvaluated, spfOut, avars, gvars, xvars>>

\* Lines 45-140: checkSPF turns the count into its result.
SpfFinish ==
    /\ spfPc = "counting" /\ Top.at = "checkSPF" /\ ret # Undef
    /\ spfOut' = spfResult(Top, ret)
    /\ spfPc' = "done"
    /\ stack' = <<>>
    /\ UNCHANGED <<dnsEnv, apex, visited, ret, queries, maxDepthEvaluated, avars, gvars, xvars>>

SpfNext ==
    \/ SpfStart
    \/ SpfEnter
    \/ SpfInclude
    \/ SpfIncludeReturn
    \/ SpfRedirect
    \/ SpfRedirectReturn
    \/ SpfReturn
    \/ SpfFinish

(***************************************************************************)
(* SPF evaluator: the DNS environments examined                            *)
(***************************************************************************)
MaxChain == 12           \* the longest chain of includes or redirects
MaxIncludes == 3         \* the most include: terms of one record
MaxFailed == 2           \* the most include: terms of a record whose targets may fail

DigitChars == <<"0", "1", "2", "3", "4", "5", "6", "7", "8", "9">>
Numeral(k) ==
    IF k < 10 THEN <<DigitChars[k + 1]>>
    ELSE <<DigitChars[(k \div 10) + 1], DigitChars[(k % 10) + 1]>>

\* The terms of a record joined by blanks.
RECURSIVE Words(_)
Words(ws) ==
    IF Len(ws) = 0 THEN <<>>
    ELSE IF Len(ws) = 1 THEN ws[1]
    ELSE ws[1] \o <<" ">> \o Words(Tail(ws))

D(k) == <<"d">> \o Numeral(k)
T(k) == <<"t">> \o Numeral(k)
Apex == D(0)

MINUS_ALL == <<"-", "a", "l", "l">>
IP4 == <<"i", "p", "4", ":", "1", "9", "2", ".", "0", ".", "2", ".", "1">>
FLAT == Words(<<V_SPF1, IP4, MINUS_ALL>>)

Include(name) == INCLUDE_COLON \o name
Redirect(name) == REDIRECT_EQ \o name

\* A record that hands over to name, by include: or by redirect=.
Link(via, name) ==
    IF via = "include" THEN Words(<<V_SPF1, Include(name), MINUS_ALL>>)
    ELSE Words(<<V_SPF1, Redirect(name)>>)

\* d0 -> d1 -> ... -> dn, where dn is flat or hands over to itself, to the one
\* before it, or to the apex.
ChainEnv(n, via, tail) ==
    [name \in {D(k) : k \in 0..n} |->
        Txt(<<IF name # D(n) THEN Link(via, D((CHOOSE k \in 0..n : D(k) = name) + 1))
              ELSE CASE tail = "flat" -> FLAT
                     [] tail = "self" -> Link(via, D(n))
                     [] tail = "back" -> Link(via, D(Max(n - 1, 0)))
                     [] tail = "apex" -> Link(via, <<"D">> \o Numeral(0))>>)]
    @@ <<>>

\* The terms a record can hold besides its includes.
MechTerms ==
    <<<<"a">>, <<"m", "x">>, <<"p", "t", "r">>, <<"e", "x", "i", "s", "t", "s", ":", "%", "{", "i", "}", ".", "x">>, <<"+", "a", ":", "d", "1", "/", "2", "4">>, <<"i", "p", "6", ":", "2", "0", "0", "1", ":", "d", "b", "8", ":", "a", ":", ":", "1">>>>

\* The apex holds the chosen terms and includes n targets, each flat or holding
\* a and mx; the targets are named t1.. or t1.mx..
TargetName(k, tld) == IF tld THEN T(k) \o <<".", "m", "x">> ELSE T(k)
TargetRecord(rich) == IF rich THEN Words(<<V_SPF1, <<"a">>, <<"M", "X">>, MINUS_ALL>>) ELSE FLAT

CountEnv(terms, n, tld, rich) ==
    (Apex :> Txt(<<Words(<<V_SPF1>>
                         \o [i \in 1..Cardinality(terms) |-> MechTerms[Ascending(terms)[i]]]
                         \o [k \in 1..n |-> Include(TargetName(k, tld))]
                         \o <<MINUS_ALL>>)>>))
    @@ [name \in {TargetName(k, tld) : k \in 1..n} |-> Txt(<<TargetRecord(rich)>>)]

\* Targets that publish no SPF: a name that does not exist (written in lower and
\* in upper case, and one under .mx), a server failure, an answer without SPF;
\* a target that publishes SPF; and one whose own include fails.
TargetKinds == {"good", "nested", "absent", "ABSENT", "absent.mx", "servfail", "nospf"}
KindName(kind) ==
    CASE kind = "good" -> T(1)
      [] kind = "nested" -> T(2)
      [] kind = "absent" -> <<"n", "x">>
      [] kind = "ABSENT" -> <<"N", "X">>
      [] kind = "absent.mx" -> <<"n", "x", ".", "m", "x">>
      [] kind = "servfail" -> <<"s", "f">>
      [] kind = "nospf" -> <<"n", "s">>

Targets ==
    (T(1) :> Txt(<<FLAT>>))
    @@ (T(2) :> Txt(<<Link("include", <<"n", "x">>)>>))
    @@ (<<"s", "f">> :> DnsError("ESERVFAIL"))
    @@ (<<"n", "s">> :> Txt(<<<<"h", "e", "l", "l", "o">>>>))

\* The apex includes the targets of the given kinds, in order, and redirects to
\* a further one if redirectKind is not "none".
FailEnv(kinds, redirectKind) ==
    (Apex :> Txt(<<Words(<<V_SPF1>>
                         \o [i \in DOMAIN kinds |-> Include(KindName(kinds[i]))]
                         \o (IF redirectKind = "none" THEN <<MINUS_ALL>>
                             ELSE <<Redirect(KindName(redirectKind))>>))>>))
    @@ Targets

\* The apex includes d1, itself and a missing name, and redirects to a name whose
\* query fails; d1 starts the chain d1 -> ... -> dn of includes and, when the
\* chain goes on, redirects to a name without SPF.
BranchEnv(n, tail) ==
    (Apex :> Txt(<<Words(<<V_SPF1, Include(D(1)), Include(Apex), Include(<<"n", "x">>),
                           Redirect(<<"s", "f">>)>>)>>))
    @@ (IF n >= 2
        THEN D(1) :> Txt(<<Words(<<V_SPF1, Include(D(2)), Redirect(<<"n", "s">>)>>)>>)
        ELSE <<>>)
    @@ ChainEnv(n, "include", tail)
    @@ Targets

\* Records that differ in what precedes the all mechanism and in its qualifier.
Beginnings ==
    {<<>>, <<<<"m", "x">>>>, <<IP4>>, <<Include(T(1))>>,
     <<Include(<<"s", "p", "f", ".", "f", "i", "r", "e", "w", "a", "l", "l", ".", "e", "x", "a", "m", "p", "l", "e">>)>>, <<<<"e", "x", "i", "s", "t", "s", ":", "%", "{", "i", "}", ".", "a", "l", "l", ".", "e", "x", "a", "m", "p", "l", "e">>>>}
Endings ==
    {<<>>, <<<<"+", "a", "l", "l">>>>, <<<<"a", "l", "l">>>>, <<<<"?", "a", "l", "l">>>>, <<<<"~", "a", "l", "l">>>>, <<MINUS_ALL>>, <<<<"-", "A", "L", "L">>>>}

QualifierEnv(beginning, ending) ==
    (Apex :> Txt(<<Words(<<V_SPF1>> \o beginning \o ending)>>))
    @@ (<<"s", "p", "f", ".", "f", "i", "r", "e", "w", "a", "l", "l", ".", "e", "x", "a", "m", "p", "l", "e">> :> Txt(<<FLAT>>))
    @@ Targets

\* What the apex itself answers when it is not a single SPF record.
ApexEnvs ==
    {<<>>,
     Apex :> DnsError("ENODATA"),
     Apex :> DnsError("ESERVFAIL"),
     Apex :> Txt(<<<<"h", "e", "l", "l", "o">>>>),
     Apex :> Txt(<<<<"h", "e", "l", "l", "o">>, <<"V", "=", "S", "P", "F", "1", " ", "-", "a", "l", "l">>, FLAT>>)}

\* checkSPF(apex) has been called in the environment dnsEnv.
ChooseDnsEnv(env) ==
    \/ \E n \in 0..MaxChain, via \in {"include", "redirect"},
          tail \in {"flat", "self", "back", "apex"} : env = ChainEnv(n, via, tail)
    \/ \E terms \in SUBSET (1..Len(MechTerms)), n \in 0..MaxIncludes, tld \in BOOLEAN,
          rich \in BOOLEAN : env = CountEnv(terms, n, tld, rich)
    \/ \E kinds \in SeqsUpTo(TargetKinds, MaxFailed),
          r \in {"none", "good", "absent", "ABSENT", "servfail"} : env = FailEnv(kinds, r)
    \/ \E b \in Beginnings, e \in Endings : env = QualifierEnv(b, e)
    \/ \E n \in {1, 2} \cup ((MaxChain - 1)..MaxChain), tail \in {"flat", "back"} :
          env = BranchEnv(n, tail)
    \/ env \in ApexEnvs

SpfInit ==
    /\ ChooseDnsEnv(dnsEnv)
    /\ apex = Apex /\ spfPc = "start" /\ stack = <<>> /\ visited = {}
    /\ ret = Undef /\ queries = <<>> /\ maxDepthEvaluated = 0 /\ spfOut = Undef
    /\ AnalyzerIdle /\ GradeIdle /\ MultiIdle /\ DnsIdle

SpfSpec == SpfInit /\ [][SpfNext]_vars

\* checkSPF is a chain of awaited steps: a step that can be taken is taken.
SpfFairSpec == SpfInit /\ [][SpfNext]_vars /\ WF_vars(SpfNext)

(***************************************************************************)
(* Properties of checkSPF                                                  *)
(***************************************************************************)
\* A record as RFC 7208 reads it: terms separated by blanks, a term being an
\* optional qualifier, a name and an optional argument.
RECURSIVE termsOf(_)
termsOf(s) ==
    TheOne({IF t = <<>> THEN <<>>
            ELSE TheOne({<<SubSeq(t, 1, e)>> \o termsOf(SubSeq(t, e + 1, Len(t))) :
                         e \in {runEnd(t, 1)}}) :
            t \in {trimLeft(s)}})

unqualified(term) == IF term # <<>> /\ term[1] \in Qualifiers THEN Tail(term) ELSE term
termName(term) == toLowerCase(beforeFirst(beforeFirst(unqualified(term), ":"), "/"))

\* The term is an a, mx, ptr or exists mechanism.
isLookupTerm(term) ==
    \/ termName(term) \in {<<"a">>, <<"m", "x">>, <<"p", "t", "r">>}
    \/ startsWith(toLowerCase(unqualified(term)), EXISTS_COLON)

lookupTerms(record) == Len(SelectSeq(termsOf(record), isLookupTerm))

isIncludeTerm(term) ==
    /\ startsWith(toLowerCase(unqualified(term)), INCLUDE_COLON)
    /\ Len(unqualified(term)) > Len(INCLUDE_COLON)

isRedirectTerm(term) ==
    startsWith(toLowerCase(term), REDIRECT_EQ) /\ Len(term) > Len(REDIRECT_EQ)

\* The targets of the include mechanisms of the record, in order.
includeTargets(record) ==
    TheOne({[k \in DOMAIN ts |-> SubSeq(ts[k], Len(INCLUDE_COLON) + 1, Len(ts[k]))] :
            ts \in {[k \in DOMAIN all |-> unqualified(all[k])] :
                    all \in {SelectSeq(termsOf(record), isIncludeTerm)}}})

\* The targets of the redirect modifier of the record: none or one.
redirectTargets(record) ==
    TheOne({IF ts = <<>> THEN {} ELSE {SubSeq(toLowerCase(ts[1]), Len(REDIRECT_EQ) + 1, Len(ts[1]))} :
            ts \in {SelectSeq(termsOf(record), isRedirectTerm)}})

\* The qualifier of the all mechanism of the record, "+" when it is written
\* without one, "none" when the record has no all mechanism.
allQualifier(record) ==
    TheOne({IF ts = <<>> THEN "none"
            ELSE IF ts[1][1] \in Qualifiers THEN ts[1][1] ELSE "+" :
            ts \in {SelectSeq(termsOf(record), LAMBDA t : toLowerCase(unqualified(t)) = ALL)}})

Elements(list) == {list[i] : i \in DOMAIN list}

RECURSIVE Sum(_)
Sum(numbers) == IF numbers = <<>> THEN 0 ELSE Head(numbers) + Sum(Tail(numbers))

\* The SPF record a name publishes, if any.
publishes(env, name) == findSpf(resolveTxt(env, name))

\* The names the record of a name hands over to.
successors(env, name) ==
    TheOne({IF r = None THEN {}
            ELSE {toLowerCase(t) : t \in Elements(includeTargets(r[1])) \cup redirectTargets(r[1])} :
            r \in {publishes(env, name)}})

\* Some walk along includes and redirects that has come to name, having passed
\* the names in seen, comes back to a name it passed, the returning call being
\* at a depth of at most limit.
RECURSIVE revisits(_, _, _, _, _)
revisits(env, name, seen, depth, limit) ==
    /\ depth <= limit
    /\ publishes(env, name) # None
    /\ \/ name \in seen
       \/ \E next \in successors(env, name) :
             revisits(env, next, seen \cup {name}, depth + 1, limit)

\* The include/redirect graph reachable from the apex contains a cycle.
HasCycle(env) == revisits(env, toLowerCase(apex), {}, 0, Cardinality(DOMAIN env) + 1)

\* ... and a walk from the apex closes a cycle with a call of depth <= 10.
CycleWithinLimit(env) == revisits(env, toLowerCase(apex), {}, 0, SPF_MAX_RECURSION_DEPTH)

\* The names of the chain that starts at name, as long as each record hands
\* over to exactly one name, and k names beyond name at most.
RECURSIVE chainFrom(_, _, _)
chainFrom(env, name, k) ==
    TheOne({IF k = 0 \/ Cardinality(next) # 1 THEN <<name>>
            ELSE <<name>> \o chainFrom(env, TheOne(next), k - 1) :
            next \in {successors(env, name)}})

\* The apex starts a chain longer than the depth limit: the records at the
\* depths 0..10 belong to different names, and the last of them hands over to a
\* name that publishes a record.
LongChain(env) ==
    TheOne({/\ Len(chain) = SPF_MAX_RECURSION_DEPTH + 2
            /\ publishes(env, chain[Len(chain)]) # None
            /\ \A h, k \in 1..(SPF_MAX_RECURSION_DEPTH + 1) : h # k => chain[h] # chain[k] :
            chain \in {chainFrom(env, toLowerCase(apex), SPF_MAX_RECURSION_DEPTH + 1)}})

\* checkSPF returned a result for a domain that publishes SPF.
SpfFound == spfPc = "done" /\ "found" \in DOMAIN spfOut /\ spfOut.found

IssuesWith(message) == SelectSeq(spfOut.issues, LAMBDA i : i.message = message)
SeveritiesOf(issues) == [k \in DOMAIN issues |-> issues[k].severity]

CircularReference == IssuesWith("SPF record contains circular reference")
DepthLimit == IssuesWith("SPF record analysis exceeded recursion depth limit")
IncludeNotFound == IssuesWith("SPF include target not found")
RedirectNotFound == IssuesWith("SPF redirect target not found")

\* C6 as stated: whenever the include/redirect graph reachable from the apex
\* contains a cycle, the traversal sets loopDetected, checkSPF reports the high
\* 'circular reference' issue, and lookupCount is a number.
C6_AsStated ==
    (SpfFound /\ HasCycle(dnsEnv)) =>
        /\ ret.loopDetected
        /\ SeveritiesOf(CircularReference) = <<"high">>
        /\ spfOut.lookupCount[1] \in Nat

\* C6, amended: when the graph reachable from the apex contains a cycle, checkSPF
\* terminates with a lookupCount that is a number and reports the circular
\* reference or the depth limit; it sets loopDetected and reports one high
\* 'circular reference' issue when some walk from the apex closes a cycle with a
\* call of depth at most 10.  (A cycle first closed at depth 11 is cut by the
\* depth limit before the visited set is consulted.)
C6_CycleWithinDepthDetected ==
    /\ [](SpfFound /\ HasCycle(dnsEnv) =>
            /\ spfOut.lookupCount[1] \in Nat
            /\ ret.loopDetected \/ ret.depthLimitReached
            /\ CycleWithinLimit(dnsEnv) =>
                  ret.loopDetected /\ SeveritiesOf(CircularReference) = <<"high">>)
    /\ (IF spfPc = "start" THEN HasCycle(dnsEnv) ELSE FALSE) ~> (spfPc = "done")

\* d0 includes d1 and d1 includes d0: checkSPF returned and reports the cycle.
C6_Witness ==
    /\ SpfFound /\ dnsEnv = ChainEnv(1, "include", "back")
    /\ ret.loopDetected /\ Len(CircularReference) = 1
    /\ queries = <<D(0), D(1), D(0)>>

\* C7: no record is evaluated at a depth greater than 10; a call with depth > 10
\* returns count 0 with depthLimitReached=true, issues no DNS query and marks
\* nothing visited; and for a chain longer than the limit checkSPF terminates,
\* sets depthLimitReached and reports the high depth-limit issue.
C7_DepthLimited ==
    /\ [](/\ maxDepthEvaluated <= SPF_MAX_RECURSION_DEPTH
          /\ \A i \in 2..Len(stack) :
                stack[i].depth > SPF_MAX_RECURSION_DEPTH =>
                    stack[i].at = "enter" /\ stack[i].count = 0)
    /\ [][(spfPc = "counting" /\ Top.at = "enter" /\ Top.depth > SPF_MAX_RECURSION_DEPTH) =>
            /\ ret' = LookupResult(0, FALSE, TRUE, <<>>, <<>>)
            /\ queries' = queries /\ visited' = visited /\ stack' = Pop]_vars
    /\ [](SpfFound /\ LongChain(dnsEnv) =>
            /\ ret.depthLimitReached
            /\ SeveritiesOf(DepthLimit) = <<"high">>
            /\ spfOut.lookupCount[1] \in Nat)
    /\ (spfPc = "start" /\ LongChain(dnsEnv)) ~> (spfPc = "done")

\* A chain of twelve different records, each redirecting to the next: checkSPF
\* returned after evaluating the records at the depths 0..10 and no deeper.
C7_Witness ==
    /\ SpfFound /\ dnsEnv = ChainEnv(11, "redirect", "flat")
    /\ maxDepthEvaluated = SPF_MAX_RECURSION_DEPTH
    /\ Len(queries) = 12 /\ Len(DepthLimit) = 1 /\ ~ret.loopDetected

\* The include targets of the apex record all publish a record without include
\* or redirect of its own, and the apex record has no redirect.
IncludesAreLeaves ==
    /\ redirectTargets(spfOut.record) = {}
    /\ \A t \in Elements(includeTargets(spfOut.record)) :
          /\ publishes(dnsEnv, t) # None
          /\ includeTargets(publishes(dnsEnv, t)[1]) = <<>>
          /\ redirectTargets(publishes(dnsEnv, t)[1]) = {}

\* C8 as stated: for a record with N include mechanisms whose targets publish
\* records without include or redirect, lookupCount is N plus the number of a,
\* mx, ptr and exists mechanisms in the records evaluated.
C8_AsStated ==
    (SpfFound /\ IncludesAreLeaves) =>
        spfOut.lookupCount =
            Some(Len(includeTargets(spfOut.record))
                 + lookupTerms(spfOut.record)
                 + Sum([k \in DOMAIN includeTargets(spfOut.record) |->
                           lookupTerms(publishes(dnsEnv, includeTargets(spfOut.record)[k])[1])]))

\* The names queried after the apex that publish no SPF record.
FailedQueries ==
    {queries[i] : i \in {k \in 2..Len(queries) : publishes(dnsEnv, queries[k]) = None}}

\* One high issue for each element of targets, in order, and no other.
OnePerTarget(issues, targets) ==
    /\ Len(issues) = Cardinality(Elements(targets))
    /\ \A t \in Elements(targets) :
          Len(SelectSeq(issues, LAMBDA i : i.detail = t /\ i.severity = "high")) = 1

\* C9: a step that queries an include (redirect) target without a resolvable SPF
\* record - the query fails with any error or answers without a v=spf1 record -
\* adds exactly 1 to the count of the record being evaluated, appends the target
\* to its failedIncludes (failedRedirects) and goes on with the rest of the
\* record; checkSPF then has queried every include of the apex record, and
\* returns found=true with exactly one high issue per distinct target of
\* failedIncludes and one per distinct target of failedRedirects.
C9_FailedTargetTolerated ==
    /\ [][(spfPc = "counting" /\ Len(queries') = Len(queries) + 1
           /\ publishes(dnsEnv, queries'[Len(queries')]) = None) =>
            LET target == queries'[Len(queries')]
                after == stack'[Len(stack')]
            IN  /\ Len(stack') = Len(stack)
                /\ after.count = Top.count + 1
                /\ spfPc' = "counting"
                /\ IF Top.todo # <<>>
                   THEN /\ target = Head(Top.todo)
                        /\ after.failedIncludes = Append(Top.failedIncludes, target)
                        /\ after.failedRedirects = Top.failedRedirects
                        /\ after.todo = Tail(Top.todo) /\ after.at = "includes"
                   ELSE /\ after.failedRedirects = Append(Top.failedRedirects, target)
                        /\ after.failedIncludes = Top.failedIncludes
                        /\ after.at = "return"]_vars
    /\ [](spfPc = "done" /\ publishes(dnsEnv, apex) # None =>
            /\ SpfFound
            /\ Elements(ret.failedIncludes) \cup Elements(ret.failedRedirects) = FailedQueries
            /\ Elements(includeTargets(spfOut.record)) \subseteq Elements(queries)
            /\ OnePerTarget(IncludeNotFound, ret.failedIncludes)
            /\ OnePerTarget(RedirectNotFound, ret.failedRedirects)
            /\ spfOut.lookupCount[1] >= Len(ret.failedIncludes) + Len(ret.failedRedirects))

\* The apex includes a missing name twice and then a name that publishes SPF,
\* and redirects to a name whose query fails: checkSPF returned, having queried
\* them all, with one issue for the include and one for the redirect.
C9_Witness ==
    /\ SpfFound
    /\ ret.failedIncludes = <<<<"n", "x">>, <<"n", "x">>>>
    /\ ret.failedRedirects = <<<<"s", "f">>>>
    /\ Len(IncludeNotFound) = 1 /\ Len(RedirectNotFound) = 1
    /\ queries = <<D(0), <<"n", "x">>, <<"n", "x">>, <<"s", "f">>>>

VerdictMessages ==
    {"SPF uses +all (pass all) - effectively no protection",
     "SPF uses ?all (neutral) - weak protection",
     "SPF uses ~all (softfail) - consider using hardfail",
     "SPF record has no all mechanism"}

Verdicts == SelectSeq(spfOut.issues, LAMBDA i : i.message \in VerdictMessages)

\* C10 as stated: the verdict follows the all mechanism of the record: +all or a
\* bare all gives mechanism '+all' and one critical issue, ?all one high issue,
\* ~all one medium issue, -all no issue, and a record without an all mechanism
\* one high issue.
C10_AsStated ==
    SpfFound =>
        LET q == allQualifier(spfOut.record)
        IN  /\ spfOut.mechanism = IF q = "none" THEN "undefined" ELSE q \o "all"
            /\ SeveritiesOf(Verdicts) =
                  CASE q = "+" -> <<"critical">>
                    [] q = "?" -> <<"high">>
                    [] q = "~" -> <<"medium">>
                    [] q = "-" -> <<>>
                    [] OTHER -> <<"high">>

(***************************************************************************)
(* Properties of the penalty and the bonus of calculateGrade               *)
(***************************************************************************)
\* The number of issues of severity sev on the result r, absent results having none.
SevOn(r, sev) ==
    IF IsDef(r) THEN Len(SelectSeq(r.issues, LAMBDA i : i.severity = sev)) ELSE 0

\* The number of issues of severity sev over the nine results of g together.
SevOver(g, sev) == Sum([k \in 1..9 |-> SevOn(g[CheckFields[k]], sev)])

PenaltyOf(g) ==
    calculateIssuePenalty(g.spf, g.dkim, g.dmarc, g.mx, g.bimi, g.mtaSts, g.tlsRpt, g.arc,
                          g.dnssec)
BaseOf(g) == BasePoints(g.spf, g.dkim, g.dmarc)
BonusOf(g) == BonusPoints(g.dmarc, g.bimi, g.mtaSts, g.tlsRpt, g.arc, g.dnssec)

\* min(c,3)*15 + min(h,3)*8 + min(m,5)*3
StatedPenalty(g) ==
    Min(SevOver(g, "critical"), 3) * 15 + Min(SevOver(g, "high"), 3) * 8
    + Min(SevOver(g, "medium"), 5) * 3

\* C11: the penalty calculateGrade subtracts is min(c,3)*15 + min(h,3)*8 +
\* min(m,5)*3 for the numbers c, h, m of critical, high and medium issues over
\* all nine results together; low and info issues add nothing, five critical
\* issues cost 45, and the penalty is at most 84.
C11_PenaltyFormula ==
    gOut # Undef =>
        /\ PenaltyOf(gIn) = StatedPenalty(gIn)
        /\ gOut.score = Max(0, Min(100, BaseOf(gIn) + Min(BonusOf(gIn), SCORE_BONUS_MAX))
                               - StatedPenalty(gIn))
        /\ PenaltyOf(gIn) <= 84
        /\ (SevOver(gIn, "critical") = 5 /\ SevOver(gIn, "high") = 0
            /\ SevOver(gIn, "medium") = 0) => PenaltyOf(gIn) = 45

\* calculateGrade returned for results that carry five critical issues on five
\* different checks, and a low one, and lost 45 points for them.
C11_Witness ==
    /\ gOut # Undef
    /\ SevOver(gIn, "critical") = 5 /\ SevOn(gIn.spf, "critical") = 1
    /\ SevOver(gIn, "high") = 0 /\ SevOver(gIn, "medium") = 0
    /\ BaseOf(gIn) = 100 /\ gOut.score = 55

\* C12 as stated: the optional-check bonus pool adds at most 15 points to the
\* score, the cap being applied to the summed bonus before the penalty is
\* subtracted: the score is at most what base + 15 - penalty allows.
C12_AsStated ==
    gOut # Undef => gOut.score <= Max(0, BaseOf(gIn) + 15 - PenaltyOf(gIn))

\* clamp(v, 0, 100)
Clamp(v) == Max(0, Min(100, v))

BimiFound == wrapped["bimi"].state = "fulfilled" /\ IsDef(wrapped["bimi"].value)
             /\ wrapped["bimi"].value.found

\* The score of the returned result had its BIMI entry not been found.
ScoreWithoutBimi ==
    calculateGrade(result.spf, result.dkim, result.dmarc, result.mx,
                   [result.bimi EXCEPT !.found = FALSE], result.mtaSts, result.tlsRpt,
                   result.arc, result.dnssec).score

\* C14: when BIMI is found and DMARC is not found or has policy none or no
\* policy, exactly one high prerequisite issue is appended to the BIMI result
\* and BIMI earns no bonus (neither +3 nor +2); when DMARC is found with policy
\* quarantine or reject, nothing is appended.
C14_BimiNeedsDmarc ==
    (Analyzed /\ BimiFound) =>
        LET v == wrapped["bimi"].value
            d == result.dmarc
        IN  IF ~d.found \/ d.policy \in {"none", "undefined"}
            THEN /\ Len(result.bimi.issues) = Len(v.issues) + 1
                 /\ SubSeq(result.bimi.issues, 1, Len(v.issues)) = v.issues
                 /\ result.bimi.issues[Len(v.issues) + 1].severity = "high"
                 /\ [result.bimi EXCEPT !.issues = v.issues] = v
                 /\ BimiBonus(result.bimi, d) = 0
                 /\ result.score = ScoreWithoutBimi
            ELSE /\ d.policy \in {"quarantine", "reject"}
                 /\ result.bimi = v

\* analyzeDomain returned a BIMI result with a certificate for a domain whose
\* DMARC record has no policy, with the prerequisite issue appended.
C14_Witness ==
    /\ Analyzed /\ BimiFound
    /\ wrapped["bimi"].value.certificateUrl # "undefined"
    /\ result.dmarc.found /\ result.dmarc.policy = "undefined"
    /\ Len(result.bimi.issues) = 2
    /\ result.bimi.issues[2].message = "BIMI requires DMARC policy of quarantine or reject"

(***************************************************************************)
(* The DNS layer (utils/dns.ts)                                            *)
(***************************************************************************)
DNS_CACHE_TTL_MS == 60000

MaxDnsTasks == 2         \* the callers of the DNS layer
MaxDnsTime == 60000      \* the clock stops advancing here
DnsTickMs == 30000       \* one step of the clock

DnsTasks == 1..MaxDnsTasks
DnsNames == {"a.example", "b.example"}
DnsOps == {"safeResolveTxt", "safeResolveMx", "cachedResolveTxt", "cachedResolveMx"}
DnsCodes == {"ENOTFOUND", "ENODATA", "ESERVFAIL"}

recordType(op) == IF op \in {"safeResolveTxt", "cachedResolveTxt"} THEN "txt" ELSE "mx"
isCached(op) == op \in {"cachedResolveTxt", "cachedResolveMx"}

\* `txt:${domain}`, `mx:${domain}`
cacheKey(op, name) == recordType(op) \o ":" \o name

\* COMMON_BIMI_SELECTORS
BimiSelectors == <<"default", "logo", "brand">>

\* cachedResolveTxt(`${selector}._bimi.${domain}`): its key
bimiKey(s, name) == "txt:" \o BimiSelectors[s] \o "._bimi." \o name

DnsKeys ==
    {cacheKey(op, n) : op \in DnsOps, n \in DnsNames}
    \cup {bimiKey(s, n) : s \in DOMAIN BimiSelectors, n \in DnsNames}

\* What the system resolver settles a query with: the chunks of each TXT record,
\* the MX records, or an error with a code.
TxtChunks == {<<<<"v=spf1 ", "-all">>, <<"x">>>>}
MxRecords == {<<[exchange |-> "mx.a.example", priority |-> 10]>>}
ResolverAnswers(type) ==
    (IF type = "txt" THEN {[chunks |-> c] : c \in TxtChunks}
     ELSE {[records |-> r] : r \in MxRecords})
    \cup {DnsError(c) : c \in DnsCodes}

\* r.join('')
RECURSIVE joinChunks(_)
joinChunks(r) == IF r = <<>> THEN "" ELSE Head(r) \o joinChunks(Tail(r))

\* resolveTxtRecords and resolver.resolveMx on an answer that is not an error
resolvedValue(type, answer) ==
    IF type = "txt" THEN [i \in 1..Len(answer.chunks) |-> joinChunks(answer.chunks[i])]
    ELSE answer.records

Returns(v) == [ok |-> TRUE, value |-> v]
Throws(e) == [ok |-> FALSE, error |-> e]

\* A resolution that answers every error with the empty list.
safeResolveSwallowing(type, answer) ==
    IF "code" \in DOMAIN answer THEN Returns(<<>>) ELSE Returns(resolvedValue(type, answer))

\* safeResolveTxt, safeResolveMx: the try block and the catch block
safeResolve(type, answer) ==
    IF "code" \in DOMAIN answer
    THEN IF isDNSNotFoundError(answer) THEN Returns(<<>>) ELSE Throws(answer)
    ELSE Returns(resolvedValue(type, answer))

EmptyCache == [k \in DnsKeys |-> Undef]

\* cached && cached.expires > now
cacheHit(cache, key, t) == cache[key] # Undef /\ cache[key].expires > t

\* Caller t calls op(name).  A cached operation that finds a live entry returns
\* its value; every other call sends a query to the resolver and awaits it.
\* The callers are alike: they are numbered in the order of their calls.
DnsCall(t, op, name) ==
    /\ dnsTasks[t].pc = "idle"
    /\ \A u \in 1..(t - 1) : dnsTasks[u].pc # "idle"
    /\ \E key \in {cacheKey(op, name)} :
          IF isCached(op) /\ cacheHit(dnsCache, key, dnsNow)
          THEN /\ dnsTasks' = [dnsTasks EXCEPT ![t] =
                                 [pc |-> "returned", op |-> op, name |-> name,
                                  started |-> dnsNow, answer |-> None,
                                  value |-> dnsCache[key].value]]
               /\ UNCHANGED dnsQueries
          ELSE /\ dnsTasks' = [dnsTasks EXCEPT ![t] =
                                 [pc |-> "querying", op |-> op, name |-> name,
                                  started |-> dnsNow]]
               /\ dnsQueries' = [dnsQueries EXCEPT ![key] = @ + 1]
    /\ UNCHANGED <<dnsCache, dnsNow, avars, gvars, svars, mvars>>

\* A caller that stores the empty list under the key when its resolution throws.
DnsAnswerCachingFailure(t, a) ==
    /\ dnsTasks[t].pc = "querying"
    /\ \E task \in {dnsTasks[t]} :
       \E out \in {safeResolve(recordType(task.op), a)} :
          /\ dnsTasks' = [dnsTasks EXCEPT ![t] =
                            IF out.ok
                            THEN [pc |-> "returned", op |-> task.op, name |-> task.name,
                                  started |-> task.started, answer |-> Some(a),
                                  value |-> out.value]
                            ELSE [pc |-> "threw", op |-> task.op, name |-> task.name,
                                  started |-> task.started, answer |-> Some(a),
                                  error |-> out.error]]
          /\ dnsCache' =
                IF isCached(task.op)
                THEN [dnsCache EXCEPT ![cacheKey(task.op, task.name)] =
                        [value |-> IF out.ok THEN out.value ELSE <<>>,
                         expires |-> task.started + DNS_CACHE_TTL_MS]]
                ELSE dnsCache
    /\ UNCHANGED <<dnsNow, dnsQueries, avars, gvars, svars, mvars>>

\* The resolver settles the query of caller t with answer a; the caller's await
\* resumes, and a cached operation stores the value it is about to return.
DnsAnswer(t, a) ==
    /\ dnsTasks[t].pc = "querying"
    /\ \E task \in {dnsTasks[t]} :
       \E out \in {safeResolve(recordType(task.op), a)} :
          IF out.ok
          THEN /\ dnsTasks' = [dnsTasks EXCEPT ![t] =
                                 [pc |-> "returned", op |-> task.op, name |-> task.name,
                                  started |-> task.started, answer |-> Some(a),
                                  value |-> out.value]]
               /\ dnsCache' =
                     IF isCached(task.op)
                     THEN [dnsCache EXCEPT ![cacheKey(task.op, task.name)] =
                             [value |-> out.value,
                              expires |-> task.started + DNS_CACHE_TTL_MS]]
                     ELSE dnsCache
          ELSE /\ dnsTasks' = [dnsTasks EXCEPT ![t] =
                                 [pc |-> "threw", op |-> task.op, name |-> task.name,
                                  started |-> task.started, answer |-> Some(a),
                                  error |-> out.error]]
               /\ UNCHANGED dnsCache
    /\ UNCHANGED <<dnsNow, dnsQueries, avars, gvars, svars, mvars>>

DnsResolverSettles(t) ==
    /\ dnsTasks[t].pc = "querying"
    /\ \E a \in ResolverAnswers(recordType(dnsTasks[t].op)) : DnsAnswer(t, a)

\* Time passes.
DnsTick ==
    /\ dnsNow < MaxDnsTime
    /\ dnsNow' = dnsNow + DnsTickMs
    /\ UNCHANGED <<dnsCache, dnsTasks, dnsQueries, avars, gvars, svars, mvars>>

\* clearDnsCache()
ClearDnsCache ==
    /\ dnsCache # EmptyCache
    /\ dnsCache' = EmptyCache
    /\ UNCHANGED <<dnsNow, dnsTasks, dnsQueries, avars, gvars, svars, mvars>>

DnsInit ==
    /\ dnsCache = EmptyCache /\ dnsNow = 0
    /\ dnsTasks = [t \in DnsTasks |-> [pc |-> "idle"]]
    /\ dnsQueries = [k \in DnsKeys |-> 0]
    /\ AnalyzerIdle /\ GradeIdle /\ SpfIdle /\ MultiIdle

DnsNext ==
    \/ \E t \in DnsTasks, op \in DnsOps, name \in DnsNames : DnsCall(t, op, name)
    \/ \E t \in DnsTasks : DnsResolverSettles(t)
    \/ DnsTick
    \/ ClearDnsCache

DnsSpec == DnsInit /\ [][DnsNext]_vars

(***************************************************************************)
(* Properties of the DNS layer                                             *)
(***************************************************************************)
\* The callers whose query the resolver has settled.
Answered == {t \in DnsTasks : dnsTasks[t].pc \in {"returned", "threw"}
                               /\ dnsTasks[t].answer # None}

\* C17: safeResolveTxt, safeResolveMx and their cached wrappers return the
\* empty list when the query fails with ENOTFOUND or ENODATA, and throw every
\* other DNS error as it came from the resolver.
C17_NotFoundIsEmpty ==
    \A t \in Answered :
        LET task == dnsTasks[t]
            a == task.answer[1]
        IN  IF "code" \in DOMAIN a
            THEN IF a.code \in {"ENOTFOUND", "ENODATA"}
                 THEN task.pc = "returned" /\ task.value = <<>>
                 ELSE task.pc = "threw" /\ task.error = a
            ELSE task.pc = "returned" /\ Len(task.value) > 0

\* A cached TXT resolution returned the empty list for ENODATA while a cached MX
\* resolution threw the resolver's ESERVFAIL.
C17_Witness ==
    /\ dnsTasks[1].pc = "returned" /\ dnsTasks[1].op = "cachedResolveTxt"
    /\ dnsTasks[1].answer = Some(DnsError("ENODATA")) /\ dnsTasks[1].value = <<>>
    /\ dnsTasks[2].pc = "threw" /\ dnsTasks[2].op = "cachedResolveMx"
    /\ dnsTasks[2].error = DnsError("ESERVFAIL")

(***************************************************************************)
(* analyzeMultiple (core/analyzer.ts)                                      *)
(***************************************************************************)
DEFAULT_CONCURRENCY == 5

MaxDomains == 4          \* the longest list of domains, but for LongLists
MaxConcurrency == 3      \* the greatest options.concurrency, but for the default

\* An element of the domains argument: a string, or a value that is none (the
\* argument is not checked at run time).
Str(text) == [string |-> text]
NotAString == [kind |-> "null"]
DomainArgs == {Str("a.example"), Str("b.example"), NotAString}

LongLists ==
    {[k \in 1..6 |-> Str("a.example")],
     [k \in 1..7 |-> IF k = 6 THEN NotAString ELSE Str("b.example")]}

NotStarted == [state |-> "notStarted"]
Running == [state |-> "running"]
CallResolved(r) == [state |-> "resolved", value |-> r]
CallThrew(e) == [state |-> "threw", error |-> e]

\* What analyzeDomain resolves with, as far as analyzeMultiple is concerned.
\* An object is known by the scope whose code created it - the module (0) or
\* the analyzeDomain call at place k - and by the check it belongs to.  A check
\* result, as far as identity goes, is its object and the array of its issues.
ResultObject(scope, check, found) ==
    [object |-> [scope |-> scope, check |-> check],
     issues |-> [scope |-> scope, check |-> check \o ".issues"],
     found |-> found]

\* The object literals evaluated once, when their modules are loaded.
NO_MX_RESULT == ResultObject(0, "mx", FALSE)
NO_BIMI_RESULT == ResultObject(0, "bimi", FALSE)
NO_MTA_STS_RESULT == ResultObject(0, "mtaSts", FALSE)

\* The records the names publish: a.example has MX and BIMI, b.example none.
RecordsOf(name) == IF name = "a.example" THEN {"mx", "bimi"} ELSE {}

\* checkMX, checkBIMI and checkMTASTS as called by the analyzeDomain call at
\* place k: a new object for a record found, else what the module holds.
checkMX(k, name) ==
    IF "mx" \in RecordsOf(name) THEN ResultObject(k, "mx", TRUE) ELSE NO_MX_RESULT
checkBIMI(k, name) ==
    IF "bimi" \in RecordsOf(name) THEN ResultObject(k, "bimi", TRUE) ELSE NO_BIMI_RESULT
checkMTASTS(k, name) ==
    IF "mtaSts" \in RecordsOf(name) THEN ResultObject(k, "mtaSts", TRUE)
    ELSE NO_MTA_STS_RESULT

BIMI_RECORD == "v=BIMI1; l=https://a.example/logo.svg"

\* What the resolver answers for the BIMI name of selector s: a.example
\* publishes its record under the selector logo.
bimiAnswer(s, name) ==
    IF "bimi" \in RecordsOf(name) /\ BimiSelectors[s] = "logo"
    THEN [chunks |-> <<<<BIMI_RECORD>>>>]
    ELSE DnsError("ENOTFOUND")

\* filterRecordsByPrefix(txtRecords, DNS_PREFIX.BIMI)
bimiRecords(txtRecords) == SelectSeq(txtRecords, LAMBDA r : r = BIMI_RECORD)

\* checkBIMI as started by an analyzeDomain call at time t, before its first lookup.
NewBimiTask(name, t) ==
    [pc |-> "new", name |-> name, selector |-> 0, called |-> t, started |-> t,
     window |-> 0, value |-> <<>>, served |-> {}]

\* checkBIMISelector for selector s up to its await: cachedResolve either finds a
\* live entry, and the check is served its value, or sends a query to the
\* resolver.  The window in which the query starts, w, is noted with it, and
\* the windows of the entries the check was served are noted in served.
bimiLookup(task, s, cache, t, w) ==
    IF cacheHit(cache, bimiKey(s, task.name), t)
    THEN [task EXCEPT !.pc = "resumed", !.selector = s,
                      !.value = cache[bimiKey(s, task.name)].value,
                      !.served = @ \cup {cache[bimiKey(s, task.name)].window}]
    ELSE [task EXCEPT !.pc = "querying", !.selector = s, !.started = t, !.window = w]

DomainResultOf(k, arg) ==
    [domain |-> arg.string, mx |-> checkMX(k, arg.string),
     bimi |-> checkBIMI(k, arg.string), mtaSts |-> checkMTASTS(k, arg.string)]

\* options.concurrency || 5
concurrencyOf(opts) ==
    IF opts.concurrency = 0 THEN DEFAULT_CONCURRENCY ELSE opts.concurrency

\* A window that takes one domain more than the concurrency.
batchOfOneMore(i, c, n) == (i + 1)..Min(i + c + 1, n)

\* The places of domains.slice(i, i + concurrency), counted from 1
batchOf(i, c, n) == (i + 1)..Min(i + c, n)

CurrentBatch == batchOf(mI, concurrencyOf(mOptions), Len(mDomains))

\* The for loop from its test i < domains.length to the next await, or to the
\* return: the cache is cleared and every domain of the window is handed to
\* analyzeDomain, which runs up to its first await; where the DNS traffic of the
\* calls is followed (dnsTasks has their places), their BIMI checks have sent
\* their first query by then.
EnterLoop(i, results, calls) ==
    IF i < Len(mDomains)
    THEN /\ mCalls' = [k \in DOMAIN calls |->
                          IF k \in batchOf(i, concurrencyOf(mOptions), Len(mDomains))
                          THEN Running ELSE calls[k]]
         /\ dnsCache' = EmptyCache
         /\ dnsTasks' = [k \in DOMAIN dnsTasks |->
                            IF k \in batchOf(i, concurrencyOf(mOptions), Len(mDomains))
                            THEN bimiLookup(NewBimiTask(mDomains[k].string, dnsNow), 1,
                                            EmptyCache, dnsNow, i \div concurrencyOf(mOptions))
                            ELSE dnsTasks[k]]
         /\ mI' = i /\ mResults' = results /\ mPc' = "awaiting"
         /\ UNCHANGED mOut
    ELSE /\ mCalls' = calls /\ mI' = i /\ mResults' = results
         /\ mPc' = "resolved" /\ mOut' = Returns(results)
         /\ UNCHANGED <<dnsCache, dnsTasks>>

AnalyzeMultipleStart ==
    /\ mPc = "start"
    /\ EnterLoop(0, <<>>, mCalls)
    /\ UNCHANGED <<mDomains, mOptions, dnsNow, dnsQueries, avars, gvars, svars>>

\* The BIMI check of the call at place k has returned, or time has passed since
\* the call and the timeout of the check has fired.
CheckOverOrTimedOut(k) == dnsTasks[k].pc = "done" \/ dnsNow > dnsTasks[k].called

\* A return that collects the results of a window from its last call to its first.
CallReturnReversed(k) ==
    /\ mCalls[k] = Running
    /\ mDomains[k] # NotAString
    /\ k \in DOMAIN dnsTasks => CheckOverOrTimedOut(k)
    /\ \E calls \in {[mCalls EXCEPT ![k] = CallResolved(DomainResultOf(k, mDomains[k]))]} :
          IF mPc = "awaiting" /\ k \in CurrentBatch
             /\ \A j \in CurrentBatch : calls[j].state = "resolved"
          THEN EnterLoop(mI + concurrencyOf(mOptions),
                         mResults \o [j \in 1..Cardinality(CurrentBatch) |->
                                         calls[mI + Cardinality(CurrentBatch) + 1 - j].value],
                         calls)
          ELSE /\ mCalls' = calls
               /\ UNCHANGED <<mPc, mI, mResults, mOut, dnsCache, dnsTasks>>
    /\ UNCHANGED <<mDomains, mOptions, dnsNow, dnsQueries, avars, gvars, svars>>

\* The analyzeDomain call at place k resolves.  When it is the last of its window,
\* Promise.all resolves with the window's results in the order of the window and
\* the loop goes on.
CallReturn(k) ==
    /\ mCalls[k] = Running
    /\ mDomains[k] # NotAString
    /\ k \in DOMAIN dnsTasks => CheckOverOrTimedOut(k)
    /\ \E calls \in {[mCalls EXCEPT ![k] = CallResolved(DomainResultOf(k, mDomains[k]))]} :
          IF mPc = "awaiting" /\ k \in CurrentBatch
             /\ \A j \in CurrentBatch : calls[j].state = "resolved"
          THEN EnterLoop(mI + concurrencyOf(mOptions),
                         mResults \o [j \in 1..Cardinality(CurrentBatch) |-> calls[mI + j].value],
                         calls)
          ELSE /\ mCalls' = calls
               /\ UNCHANGED <<mPc, mI, mResults, mOut, dnsCache, dnsTasks>>
    /\ UNCHANGED <<mDomains, mOptions, dnsNow, dnsQueries, avars, gvars, svars>>

\* The analyzeDomain call at place k throws: normalizeDomain calls toLowerCase on
\* a value that has none.  Promise.all rejects with the first rejection of the
\* window and the await in analyzeMultiple throws; nothing catches it.
CallThrow(k) ==
    /\ mCalls[k] = Running
    /\ mDomains[k] = NotAString
    /\ mCalls' = [mCalls EXCEPT ![k] = CallThrew("TypeError")]
    /\ IF mPc = "awaiting" /\ k \in CurrentBatch
       THEN mPc' = "rejected" /\ mOut' = Throws("TypeError")
       ELSE UNCHANGED <<mPc, mOut>>
    /\ UNCHANGED <<mI, mResults, dnsCache>>
    /\ UNCHANGED <<mDomains, mOptions, dnsNow, dnsTasks, dnsQueries, avars, gvars, svars>>

DomainLists == SeqsUpTo(DomainArgs, MaxDomains) \cup LongLists

\* A cache with an entry left by earlier work.
UsedCache ==
    [EmptyCache EXCEPT !["txt:a.example"] =
        [value |-> <<"v=spf1 -all">>, expires |-> DNS_CACHE_TTL_MS]]

\* analyzeMultiple(domains, options) has been called.
BatchInit ==
    /\ mDomains \in DomainLists
    /\ mOptions \in [concurrency : 0..MaxConcurrency]
    /\ mPc = "start" /\ mI = 0 /\ mResults = <<>> /\ mOut = Undef
    /\ mCalls = [k \in 1..Len(mDomains) |-> NotStarted]
    /\ dnsCache \in {EmptyCache, UsedCache}
    /\ dnsNow = 0 /\ dnsTasks = <<>> /\ dnsQueries = <<>>
    /\ AnalyzerIdle /\ GradeIdle /\ SpfIdle

BatchNext ==
    \/ AnalyzeMultipleStart
    \/ \E k \in DOMAIN mCalls : CallReturn(k)
    \/ \E k \in DOMAIN mCalls : CallThrow(k)

BatchSpec == BatchInit /\ [][BatchNext]_vars

MaxScanned == 2          \* the longest list whose DNS traffic is followed

\* The resolver settles the query of the BIMI check of call k: cachedResolve
\* stores the value with the expiry of the query's start and returns it.
BimiAnswer(k) ==
    /\ dnsTasks[k].pc = "querying"
    /\ \E task \in {dnsTasks[k]} :
       \E out \in {safeResolve("txt", bimiAnswer(task.selector, task.name))} :
          IF out.ok
          THEN /\ dnsCache' = [dnsCache EXCEPT ![bimiKey(task.selector, task.name)] =
                                 [value |-> out.value,
                                  expires |-> task.started + DNS_CACHE_TTL_MS,
                                  window |-> task.window]]
               /\ dnsTasks' = [dnsTasks EXCEPT ![k] =
                                 [task EXCEPT !.pc = "resumed", !.value = out.value]]
          ELSE /\ dnsTasks' = [dnsTasks EXCEPT ![k] = [task EXCEPT !.pc = "done"]]
               /\ UNCHANGED dnsCache
    /\ UNCHANGED <<dnsNow, dnsQueries, mvars, avars, gvars, svars>>

\* checkBIMI goes on with the records of a selector: it returns the record found,
\* or looks the next selector up, or returns NO_BIMI_RESULT after the last.
BimiContinue(k) ==
    /\ dnsTasks[k].pc = "resumed"
    /\ \E task \in {dnsTasks[k]} :
          dnsTasks' = [dnsTasks EXCEPT ![k] =
                         IF bimiRecords(task.value) # <<>> \/ task.selector = Len(BimiSelectors)
                         THEN [task EXCEPT !.pc = "done"]
                         ELSE bimiLookup(task, task.selector + 1, dnsCache, dnsNow,
                                         mI \div concurrencyOf(mOptions))]
    /\ UNCHANGED <<dnsCache, dnsNow, dnsQueries, mvars, avars, gvars, svars>>

\* analyzeMultiple(domains, options) has been called for a list of domains; the
\* BIMI checks of the analyzeDomain calls and their cached lookups are followed.
ScanInit ==
    /\ mDomains \in SeqsUpTo({Str("a.example"), Str("b.example")}, MaxScanned)
    /\ mOptions \in [concurrency : 1..MaxConcurrency]
    /\ mPc = "start" /\ mI = 0 /\ mResults = <<>> /\ mOut = Undef
    /\ mCalls = [k \in 1..Len(mDomains) |-> NotStarted]
    /\ dnsCache = EmptyCache /\ dnsNow = 0
    /\ dnsTasks = [k \in 1..Len(mDomains) |-> [pc |-> "idle"]]
    /\ dnsQueries = <<>>
    /\ AnalyzerIdle /\ GradeIdle /\ SpfIdle

ScanNext ==
    \/ AnalyzeMultipleStart
    \/ \E k \in DOMAIN mCalls : CallReturn(k)
    \/ \E k \in DOMAIN dnsTasks : BimiAnswer(k)
    \/ \E k \in DOMAIN dnsTasks : BimiContinue(k)
    \/ DnsTick

ScanSpec == ScanInit /\ [][ScanNext]_vars

\* Every analyzeDomain call that was started returns.
BatchFairSpec == BatchInit /\ [][BatchNext]_vars /\ WF_vars(BatchNext)

(***************************************************************************)
(* Properties of analyzeMultiple                                           *)
(***************************************************************************)
Places == DOMAIN mCalls
InFlight == {k \in Places : mCalls[k] = Running}
Thrown == {k \in Places : mCalls[k].state = "threw"}
HasReturned(k) == mCalls[k].state \in {"resolved", "threw"}

\* The window of place k: places 1..c are window 0, the next c window 1, ...
WindowOf(k) == (k - 1) \div concurrencyOf(mOptions)

\* C15 as stated: an exception raised while analysing one domain does not stop
\* the batch: the call does not reject, and once every other domain's analysis
\* is over it has resolved with a DomainResult for every other input domain.
C15_AsStated ==
    (mPc # "start" /\ Thrown # {}) =>
        /\ mPc # "rejected"
        /\ (\A k \in Places \ Thrown : mCalls[k].state = "resolved") =>
              /\ mPc = "resolved" /\ mOut.ok
              /\ \A k \in Places \ Thrown :
                    \E j \in DOMAIN mOut.value : mOut.value[j] = mCalls[k].value

\* C16: at most `concurrency` (options.concurrency, default 5) analyzeDomain
\* calls are in flight at any moment, and no domain of a later window has
\* started before every domain of the windows before it has returned.
C16_WindowBound ==
    /\ Cardinality(InFlight) <= concurrencyOf(mOptions)
    /\ \A k, j \in Places :
          (mCalls[k] # NotStarted /\ WindowOf(j) < WindowOf(k)) => HasReturned(j)

\* With the default concurrency the second window runs after the five calls of
\* the first have returned.
C16_Witness ==
    /\ mOptions.concurrency = 0 /\ Len(mDomains) = 6
    /\ mI = 5 /\ InFlight = {6} /\ Len(mResults) = 5

(***************************************************************************)
(* Properties of the ARC derivation, the MTA-STS cross-check and the error *)
(* field of analyzeDomain                                                  *)
(***************************************************************************)
\* C18: whatever the SPF, DKIM and DMARC results are, the ARC entry has canSign
\* = dkim.found, ready = (dkim.found and dmarc.found) and canValidate = true; it
\* is computed from the three results alone, without a query of its own, and
\* ready implies canSign.
C18_ArcDerived ==
    Analyzed =>
        /\ result.arc.canSign = result.dkim.found
        /\ result.arc.ready = (result.dkim.found /\ result.dmarc.found)
        /\ result.arc.canValidate = TRUE
        /\ result.arc.ready => result.arc.canSign
        /\ result.arc = checkARCReadiness(result.spf, result.dkim, result.dmarc)
        /\ "arc" \notin DOMAIN probe

\* analyzeDomain returned for a domain with DKIM and without DMARC: signing is
\* possible, the domain is not ready.
C18_Witness ==
    /\ Analyzed
    /\ result.dkim.found /\ ~result.dmarc.found
    /\ result.arc.canSign /\ ~result.arc.ready

\* The MTA-STS check returned a policy with hosts, and MX records were found.
MtaStsAndMx ==
    /\ wrapped["mtaSts"].state = "fulfilled" /\ IsDef(wrapped["mtaSts"].value)
    /\ wrapped["mtaSts"].value.found /\ wrapped["mtaSts"].value.policy # None
    /\ Len(wrapped["mtaSts"].value.policy[1].mx) > 0
    /\ result.mx.found

\* The host equals the pattern, or the pattern is *.suffix and the host ends in
\* .suffix (patterns compared without regard to case).
CoveredAsStated(host, pattern) ==
    LET p == toLowerCase(pattern)
    IN  \/ host = p
        \/ /\ Len(p) > 2 /\ p[1] = "*" /\ p[2] = "."
           /\ Len(host) >= Len(p) - 1
           /\ SubSeq(host, Len(host) - Len(p) + 2, Len(host)) = SubSeq(p, 2, Len(p))

\* The MX hosts, lower-cased and without the trailing dot, that no pattern covers.
UncoveredAsStated(records, patterns) ==
    SelectSeq([i \in 1..Len(records) |-> stripTrailingDot(toLowerCase(records[i].exchange))],
              LAMBDA h : ~\E k \in 1..Len(patterns) : CoveredAsStated(h, patterns[k]))

\* The issues appended to the MTA-STS entry name exactly the hosts of hs.
AppendedFor(hs) ==
    LET v == wrapped["mtaSts"].value
        added == SubSeq(result.mtaSts.issues, Len(v.issues) + 1, Len(result.mtaSts.issues))
    IN  /\ Len(result.mtaSts.issues) = Len(v.issues) + Len(hs)
        /\ SubSeq(result.mtaSts.issues, 1, Len(v.issues)) = v.issues
        /\ \A i \in 1..Len(hs) :
              /\ added[i].severity = "high"
              /\ added[i].message = "MX host not covered by MTA-STS policy"
              /\ added[i].host = hs[i]

\* C19 as stated: with an MTA-STS policy that lists hosts and MX records found,
\* one high 'not covered by MTA-STS policy' issue is appended for exactly the MX
\* hosts (lower-cased, trailing dot stripped) that neither equal a pattern nor
\* end in '.suffix' for a '*.suffix' pattern, and none for the others.
C19_AsStated ==
    (Analyzed /\ MtaStsAndMx) =>
        AppendedFor(UncoveredAsStated(result.mx.records, wrapped["mtaSts"].value.policy[1].mx))

\* The entries the error field holds: one per rejected check, in check order.
RECURSIVE Joined(_)
Joined(entries) ==
    IF Len(entries) = 1 THEN entries[1]
    ELSE Joined(SubSeq(entries, 1, Len(entries) - 1)) \o "; " \o entries[Len(entries)]

ErrorEntries ==
    LET failed == SelectSeq(CheckOrder, LAMBDA c : wrapped[c].state = "rejected")
    IN  [i \in 1..Len(failed) |->
            CheckLabel(failed[i]) \o ": "
            \o (IF timer[failed[i]] = "fired" THEN CheckLabel(failed[i]) \o " check timed out"
                ELSE templateText(wrapped[failed[i]].message))]

\* C20: for a valid domain the error field is present exactly when an enabled
\* check rejected or timed out; it holds one '<Check>: <reason>' entry per
\* failed check, joined by '; ', and is absent when every check fulfilled.
C20_ErrorField ==
    Analyzed =>
        /\ RejectedChecks \subseteq options.checks
        /\ (result.error # None) <=> (RejectedChecks # {})
        /\ (\A c \in options.checks : wrapped[c].state = "fulfilled") => result.error = None
        /\ RejectedChecks # {} =>
              /\ Len(ErrorEntries) = Cardinality(RejectedChecks)
              /\ result.error = Some(Joined(ErrorEntries))

\* analyzeDomain returned after MX threw and DNSSEC timed out.
C20_Witness ==
    /\ Analyzed
    /\ RejectedChecks = {"mx", "dnssec"}
    /\ timer["dnssec"] = "fired" /\ timer["mx"] = "cleared"
    /\ result.error = Some("MX: queryTxt ESERVFAIL; DNSSEC: DNSSEC check timed out")

(***************************************************************************)
(* Ordering and timers of analyzeDomain                                    *)
(***************************************************************************)
\* The checks whose timeout fired.
TimedOut == {c \in Checks : timer[c] = "fired"}

\* C21: analyzeDomain reads no check's outcome before every launched check has
\* settled (fulfilled, rejected or timed out): the result is produced in a step
\* that starts with every slot settled, and it is the function of the settled
\* slots; a result that arrives after its check's timeout fired is never used,
\* the entry of that check stays the timeout's failure.
C21_SettledBeforeRead ==
    /\ [](Analyzed =>
            /\ \A c \in Checks : Settled(wrapped[c])
            /\ \A c \in TimedOut :
                  /\ wrapped[c] = Rejected(CheckLabel(c) \o " check timed out")
                  /\ OneFailureIssue(c, result[c], CheckLabel(c) \o " check timed out"))
    /\ [][/\ (pc # "start" /\ result' # result) =>
                /\ pc = "waiting"
                /\ \A c \in Checks : Settled(wrapped[c])
                /\ result' = domainResult(domain, wrapped)
          /\ \A c \in Checks : Settled(wrapped[c]) => wrapped'[c] = wrapped[c]]_vars

\* The SPF check found a record after its timeout had fired: analyzeDomain
\* returned the timeout's failure for SPF.
C21_Witness ==
    /\ Analyzed
    /\ timer["spf"] = "fired"
    /\ probe["spf"].state = "fulfilled" /\ probe["spf"].value.found
    /\ ~result.spf.found

\* C24: a check that settles before its timeout has its timer cancelled; once
\* analyzeDomain has returned none of its timers is pending, and none fires
\* afterwards.
C24_TimersCancelled ==
    /\ [](/\ \A c \in Checks :
               (wrapped[c].state \in {"fulfilled", "rejected"} /\ c \in options.checks
                /\ pc \in {"waiting", "done"})
                   => timer[c] \in {"cleared", "fired"}
          /\ pc = "done" => \A c \in Checks : timer[c] # "armed")
    /\ [][pc = "done" => timer' = timer]_vars

\* analyzeDomain returned before the deadline with the timers of its two checks
\* cancelled, one check having fulfilled and one thrown.
C24_Witness ==
    /\ Analyzed /\ now < deadline
    /\ Cardinality({c \in Checks : timer[c] = "cleared"}) = 2
    /\ RejectedChecks # {} /\ \E c \in options.checks : wrapped[c].state = "fulfilled"

(***************************************************************************)
(* Properties of the traversal of checkSPF                                  *)
(***************************************************************************)
\* C27 as stated: loopDetected is set, and the 'circular reference' issue is
\* reported, only when the include/redirect graph reachable from the apex has a
\* cycle; in an acyclic graph where the same target is referenced twice
\* loopDetected stays false.
C27_AsStated ==
    (SpfFound /\ ~HasCycle(dnsEnv)) => (~ret.loopDetected /\ CircularReference = <<>>)

\* The lookups the record itself asks for: one for each include: and one for its
\* redirect= and, unless links only, its a, mx, ptr and exists mechanisms.
ownLookups(record, linksOnly) ==
    (IF linksOnly THEN 0 ELSE directLookups(toLowerCase(record)))
    + Len(extractIncludes(record))
    + (IF redirectTarget(toLowerCase(record)) = None THEN 0 ELSE 1)

RECURSIVE lookupsOf(_, _)
lookupsOf(keys, linksOnly) ==
    IF keys = {} THEN 0
    ELSE LET k == CHOOSE k \in keys : TRUE
         IN  ownLookups(k[2], linksOnly) + lookupsOf(keys \ {k}, linksOnly)

\* C25: a nested call of an include: that returns with loopDetected or
\* depthLimitReached sets that flag in the calling record and does not end it:
\* the caller takes its count and its failed targets and goes on with the next
\* include: and, after them, its redirect=.  So when checkSPF returns, every
\* include: and the redirect= of every record evaluated were queried, lookupCount
\* is the sum of the lookups of the records evaluated, the top-level flags hold
\* what any call reported and the failed targets of all calls are reported.
C25_HitDoesNotStop ==
    /\ [][(spfPc = "counting" /\ Top.at = "awaitInclude" /\ ret # Undef
           /\ (ret.loopDetected \/ ret.depthLimitReached)) =>
            LET after == stack'[Len(stack')]
            IN  /\ spfPc' = "counting" /\ Len(stack') = Len(stack)
                /\ after.loopDetected = (Top.loopDetected \/ ret.loopDetected)
                /\ after.depthLimitReached = (Top.depthLimitReached \/ ret.depthLimitReached)
                /\ after.count = Top.count + ret.count
                /\ after.failedIncludes = Top.failedIncludes \o ret.failedIncludes
                /\ after.failedRedirects = Top.failedRedirects \o ret.failedRedirects
                /\ after.todo = Tail(Top.todo) /\ after.at = "includes"]_vars
    /\ [](SpfFound =>
            /\ \A key \in visited :
                  /\ Elements(includeTargets(key[2])) \subseteq Elements(queries)
                  /\ redirectTargets(key[2]) \subseteq Elements(queries)
            /\ spfOut.lookupCount = Some(lookupsOf(visited, FALSE))
            /\ Len(queries) = 1 + lookupsOf(visited, TRUE)
            /\ Elements(ret.failedIncludes) \cup Elements(ret.failedRedirects) = FailedQueries)

\* The chain below d1 runs into the depth limit and the apex includes itself:
\* checkSPF returned with both flags, having gone on to the redirect of d1, to
\* the later includes of the apex and to its redirect.
C25_Witness ==
    /\ SpfFound /\ dnsEnv = BranchEnv(12, "flat")
    /\ ret.depthLimitReached /\ ret.loopDetected
    /\ Len(DepthLimit) = 1 /\ Len(CircularReference) = 1
    /\ SubSeq(queries, 13, 16) = <<<<"n", "s">>, D(0), <<"n", "x">>, <<"s", "f">>>>
    /\ ret.failedIncludes = <<<<"n", "x">>>>
    /\ ret.failedRedirects = <<<<"n", "s">>, <<"s", "f">>>>
    /\ spfOut.lookupCount = Some(15)

(***************************************************************************)
(* Properties of cachedResolve                                             *)
(***************************************************************************)
\* The callers of a cached operation whose query is with the resolver.
CachedQuerying ==
    {t \in DnsTasks : dnsTasks[t].pc = "querying" /\ isCached(dnsTasks[t].op)}

KeyOf(t) == cacheKey(dnsTasks[t].op, dnsTasks[t].name)

\* C23 as stated: nothing runs between the lookup that misses and the insert, so
\* no two queries for one key of the cache are with the resolver at once, and
\* no insert replaces an entry by one of an older query (one that expires
\* earlier).
C23_AsStated ==
    /\ [](\A t, u \in CachedQuerying : KeyOf(t) = KeyOf(u) => t = u)
    /\ [][\A k \in DnsKeys :
            (dnsCache[k] # Undef /\ dnsCache'[k] # Undef) =>
                dnsCache'[k].expires >= dnsCache[k].expires]_vars

\* The callers of a cached operation whose resolution threw.
CachedThrown == {t \in DnsTasks : dnsTasks[t].pc = "threw" /\ isCached(dnsTasks[t].op)}

\* C30: a resolution that throws inside cachedResolve leaves the cache as it
\* was and hands the resolver's error to the caller; and a call for a key that
\* has no live entry - the key of a resolution that threw included - sends a
\* fresh query to the resolver.  No entry of the cache holds a failure: each
\* holds the list a resolution returned.
C30_ThrowLeavesCache ==
    /\ [][\A t \in DnsTasks :
            (dnsTasks[t].pc = "querying" /\ dnsTasks'[t].pc = "threw") =>
                /\ dnsCache' = dnsCache
                /\ dnsTasks'[t].error = dnsTasks'[t].answer[1]
                /\ dnsTasks'[t].error.code \notin {"ENOTFOUND", "ENODATA"}]_vars
    /\ [][\A t \in DnsTasks :
            (dnsTasks[t].pc = "idle" /\ dnsTasks'[t].pc # "idle" /\ isCached(dnsTasks'[t].op)
             /\ \E u \in CachedThrown : KeyOf(u) = cacheKey(dnsTasks'[t].op, dnsTasks'[t].name)
             /\ ~cacheHit(dnsCache, cacheKey(dnsTasks'[t].op, dnsTasks'[t].name), dnsNow)) =>
                /\ dnsTasks'[t].pc = "querying"
                /\ dnsQueries'[cacheKey(dnsTasks'[t].op, dnsTasks'[t].name)]
                     = dnsQueries[cacheKey(dnsTasks'[t].op, dnsTasks'[t].name)] + 1]_vars
    /\ [](\A k \in DnsKeys :
            dnsCache[k] # Undef =>
                \E t \in DnsTasks :
                    /\ dnsTasks[t].pc = "returned" /\ isCached(dnsTasks[t].op)
                    /\ dnsTasks[t].answer # None /\ KeyOf(t) = k
                    /\ dnsTasks[t].value = dnsCache[k].value)

\* The cached TXT resolution of a.example threw the resolver's ESERVFAIL; the
\* key has no entry, and the next caller's query for it is with the resolver.
C30_Witness ==
    /\ dnsTasks[1].pc = "threw" /\ dnsTasks[1].op = "cachedResolveTxt"
    /\ dnsTasks[1].name = "a.example" /\ dnsTasks[1].error = DnsError("ESERVFAIL")
    /\ dnsTasks[2].pc = "querying" /\ dnsTasks[2].op = "cachedResolveTxt"
    /\ dnsTasks[2].name = "a.example" /\ dnsTasks[2].started > dnsTasks[1].started
    /\ dnsCache["txt:a.example"] = Undef /\ dnsQueries["txt:a.example"] = 2

(***************************************************************************)
(* Monotonicity of calculateGrade                                          *)
(***************************************************************************)
\* The results g with one more issue of severity sev on the result of field f.
WithIssue(g, f, sev) == [g EXCEPT ![f].issues = Append(@, Issue(sev, "one more"))]

\* The penalty points one issue of the severity can cost.
CostOf(sev) ==
    CASE sev = "critical" -> PENALTY_CRITICAL
      [] sev = "high" -> PENALTY_HIGH
      [] sev = "medium" -> PENALTY_MEDIUM
      [] OTHER -> 0

\* C29: one more issue of any severity on any of the results handed to
\* calculateGrade never gives a higher score, and lowers it by no more than
\* the points of its severity; one more low or info issue gives the same score
\* and the same grade.
C29_IssueNeverRaises ==
    gOut # Undef =>
        \A k \in 1..9 : IsDef(gIn[CheckFields[k]]) =>
            \A sev \in Severities :
                \A after \in {GradeArgs(WithIssue(gIn, CheckFields[k], sev))} :
                    /\ after.score <= gOut.score
                    /\ after.score >= gOut.score - CostOf(sev)
                    /\ sev \in {"low", "info"} => after = gOut

\* calculateGrade returned for results that a further critical issue on the MX
\* result would cost 15 points and a grade, while a fourth high issue would cost
\* nothing.
C29_Witness ==
    /\ gOut # Undef
    /\ SevOver(gIn, "high") = 3 /\ SevOver(gIn, "critical") < 3
    /\ GradeArgs(WithIssue(gIn, "mx", "critical")).score = gOut.score - 15
    /\ GradeArgs(WithIssue(gIn, "mx", "critical")).grade # gOut.grade
    /\ GradeArgs(WithIssue(gIn, "mx", "high")) = gOut

(***************************************************************************)
(* The results of analyzeMultiple                                          *)
(***************************************************************************)
\* Every element of the list is a string.
AllDomains == \A k \in DOMAIN mDomains : mDomains[k] # NotAString

\* C28: for a list of domains and a positive concurrency (or none given),
\* analyzeMultiple resolves once the last analyzeDomain call has returned its
\* result, with exactly one DomainResult per input domain, result i being the
\* one the call for domain i returned; until then it holds the results of the
\* windows that are over, in input order, and every window has a call running.
C28_OnePerDomainInOrder ==
    /\ [](AllDomains =>
            /\ mPc \in {"start", "awaiting", "resolved"}
            /\ mPc # "start" =>
                  /\ Len(mResults) = Min(mI, Len(mDomains))
                  /\ \A k \in 1..Len(mResults) :
                        mCalls[k] = CallResolved(mResults[k])
                        /\ mResults[k] = DomainResultOf(k, mDomains[k])
            /\ mPc = "awaiting" => \E k \in CurrentBatch : mCalls[k] = Running
            /\ (mPc # "start" /\ \A k \in Places : mCalls[k].state = "resolved") =>
                  /\ mPc = "resolved"
                  /\ mOut = Returns([k \in 1..Len(mDomains) |-> DomainResultOf(k, mDomains[k])])
            /\ mPc = "resolved" => \A k \in Places : mCalls[k].state = "resolved")
    /\ (mPc = "start" /\ AllDomains) ~> (mPc = "resolved")

\* Four domains, the third a repetition of the first, analysed in windows of
\* three: the call resolved with the four results in the order of the list.
C28_Witness ==
    /\ mPc = "resolved" /\ mOptions.concurrency = 3 /\ Len(mDomains) = 4
    /\ mDomains[1] = mDomains[3] /\ mDomains[1] # mDomains[2] /\ AllDomains
    /\ mOut = Returns(<<DomainResultOf(1, mDomains[1]), DomainResultOf(2, mDomains[2]),
                        DomainResultOf(3, mDomains[3]), DomainResultOf(4, mDomains[4])>>)

(***************************************************************************)
(* The objects of the results of analyzeDomain                             *)
(***************************************************************************)
SharedKinds == {"mx", "bimi", "mtaSts"}

\* C26 as stated: the check results placed in the DomainResults of two
\* analyzeDomain calls are different objects, and so are their issues lists,
\* results that report 'record not found' included.
C26_AsStated ==
    \A j, k \in Places :
        (j # k /\ mCalls[j].state = "resolved" /\ mCalls[k].state = "resolved") =>
            \A c \in SharedKinds :
                /\ mCalls[j].value[c].object # mCalls[k].value[c].object
                /\ mCalls[j].value[c].issues # mCalls[k].value[c].issues

(***************************************************************************)
(* The DNS cache across the windows of analyzeMultiple                     *)
(***************************************************************************)
\* The calls whose BIMI check has started.
Scanned == {k \in DOMAIN dnsTasks : dnsTasks[k].pc # "idle"}

\* C22 as stated: the cache is empty when a window starts, and no analysis is
\* served an entry stored by a query that started in a window before its own,
\* the queries of checks that timed out and went on in the background included.
C22_AsStated ==
    /\ [][(mPc' = "awaiting" /\ (mPc = "start" \/ mI' # mI)) => dnsCache' = EmptyCache]_vars
    /\ [](\A k \in Scanned : \A w \in dnsTasks[k].served : w >= WindowOf(k))

====
